---- MODULE Spec2Model ----
(***************************************************************************)
(* Model of the audit orchestration core of the YMYL audit tool:          *)
(*   core/orchestrator.py  AuditOrchestrator.run_analysis and helpers     *)
(*   core/parser.py        ResponseParser                                 *)
(*   core/service.py       OpenAIService.get_response_async (outcomes)    *)
(*   core/models.py        Violation, Severity                            *)
(*                                                                         *)
(* Python strings are sequences of one-character strings, so that lower(), *)
(* strip() and the substring test `term in s` are computed, not assumed.   *)
(* Python values that may be str, None or int are tagged records.          *)
(***************************************************************************)
EXTENDS Integers, Sequences, FiniteSets, TLC

VARIABLES
    \* ---- one run of AuditOrchestrator.run_analysis ----
    audit_count,            \* the audit_count argument (ensemble size N)
    semaphore,              \* value of asyncio.Semaphore(MAX_CONCURRENT_AUDITS)
    task,                   \* task[i]: position of _run_with_semaphore(i-1)
    raw_results,            \* raw_results[i]: (success, text, error) of call i
    pc,                     \* position of the coordinating task
    all_violations,         \* pooled findings (line 68)
    successful_audits,      \* line 69
    clean_input_violations, \* line 96
    unique_violations,      \* line 100
    final_violations,       \* line 110
    report,                 \* report_md, line 113
    dedup_result,           \* (success, text, error) of the Deduplicator call
    dedup_calls,            \* number of remote calls made to the filter agent
    result,                 \* the dict run_analysis returns
    content_json,           \* the content_json argument
    run_casino_mode,        \* the casino_mode argument
    enriched_json,          \* line 48
    requests,               \* requests[i]: the get_response_async calls made by task i
    \* ---- direct application of the pure functions ----
    fn_pc,                  \* which function is applied, and whether it has been
    fn_text,                \* raw_text given to parse_to_violations
    fn_parsed,              \* what parse_to_violations did with fn_text
    fn_list,                \* list given to _sanitize_violations
    fn_once,                \* sanitize(fn_list)
    fn_twice,               \* sanitize(sanitize(fn_list))
    fn_unique,              \* unique_list given to _restore_translations
    fn_original,            \* original_list given to _restore_translations
    fn_restored,            \* what _restore_translations returned
    fn_html,                \* page given to the extraction
    fn_casino,              \* casino_mode given to extract_html_content
    fn_extracted,           \* what the extraction did with fn_html
    fn_content,             \* json_content given to _inject_global_context
    fn_enriched,            \* what _inject_global_context returned for it
    fn_data,                \* decoded value given to _map_data_to_violations
    fn_mapped,              \* what _map_data_to_violations did with fn_data
    \* ---- one batch of AnalysisProcessor.process_multi_file ----
    batch_files,            \* number of entries of files_data
    batch_count,            \* the audit_count argument, the same for every file
    batch_item,             \* batch_item[f]: the _process_item task of file f
    batch_pc,               \* position of process_multi_file
    batch_results           \* results, lines 114-115

request_vars == <<content_json, run_casino_mode, enriched_json, requests>>
run_vars == <<audit_count, semaphore, task, raw_results, pc, all_violations,
              successful_audits, clean_input_violations, unique_violations,
              final_violations, report, dedup_result, dedup_calls, result, request_vars>>
parse_vars == <<fn_text, fn_parsed>>
sanitize_vars == <<fn_list, fn_once, fn_twice>>
restore_vars == <<fn_unique, fn_original, fn_restored>>
extract_vars == <<fn_html, fn_casino, fn_extracted>>
inject_vars == <<fn_content, fn_enriched>>
map_vars == <<fn_data, fn_mapped>>
batch_vars == <<batch_files, batch_count, batch_item, batch_pc, batch_results>>
more_vars == <<inject_vars, map_vars, batch_vars>>
fn_vars == <<fn_pc, parse_vars, sanitize_vars, restore_vars, extract_vars, more_vars>>
vars == <<run_vars, fn_vars>>

(***************************************************************************)
(* Bounds of the model                                                     *)
(***************************************************************************)
\* largest ensemble size explored (the cap is 3, so 4 makes calls queue)
MaxAudits == 4
\* largest ensemble of the runs that vary the document and the mode
MaxEnsemble == 3
\* longest violation list given directly to the sanitizer
MaxListLen == 2
\* longest original_list given directly to _restore_translations
MaxOriginalLen == 2
\* most pieces that a generated page is put together from
MaxBlocks == 2
\* most files of a batch
MaxFiles == 2
\* most chunks of a document given to _inject_global_context
MaxChunks == 2

(***************************************************************************)
(* Python str / None / int values                                          *)
(***************************************************************************)
PyStr(s) == [t |-> "str", s |-> s, n |-> 0]
PyNone == [t |-> "none", s |-> <<>>, n |-> 0]
PyInt(k) == [t |-> "int", s |-> <<>>, n |-> k]

\* Python truthiness of a value: None, "" and 0 are falsy
Truthy(x) ==
    CASE x.t = "none" -> FALSE
      [] x.t = "str" -> x.s # <<>>
      [] OTHER -> x.n # 0

UpperLetters == <<"A","B","C","D","E","F","G","H","I","J","K","L","M",
                  "N","O","P","Q","R","S","T","U","V","W","X","Y","Z">>
LowerLetters == <<"a","b","c","d","e","f","g","h","i","j","k","l","m",
                  "n","o","p","q","r","s","t","u","v","w","x","y","z">>

\* the lower-case letter of each upper-case one
LowerOf ==
    [c \in {UpperLetters[i] : i \in 1..Len(UpperLetters)} |->
        LowerLetters[CHOOSE i \in 1..Len(UpperLetters) : UpperLetters[i] = c]]

LowerChar(c) == IF c \in DOMAIN LowerOf THEN LowerOf[c] ELSE c

\* str.lower()
Lower(s) == [i \in 1..Len(s) |-> LowerChar(s[i])]

IsSpace(c) == c \in {" ", "\t", "\n", "\r"}

\* str.strip()
Strip(s) ==
    IF \A i \in 1..Len(s) : IsSpace(s[i]) THEN <<>>
    ELSE LET first == CHOOSE i \in 1..Len(s) :
                          /\ ~IsSpace(s[i])
                          /\ \A j \in 1..(i-1) : IsSpace(s[j])
             last == CHOOSE i \in 1..Len(s) :
                          /\ ~IsSpace(s[i])
                          /\ \A j \in (i+1)..Len(s) : IsSpace(s[j])
         IN SubSeq(s, first, last)

\* the Python test `term in s` on strings
Contains(term, s) ==
    \E i \in 0..(Len(s) - Len(term)) : SubSeq(s, i + 1, i + Len(term)) = term

(***************************************************************************)
(* core/models.py                                                          *)
(***************************************************************************)
\* the dataclass Violation; source_audit_id defaults to None
Violation(problematic_text, violation_type, explanation, guideline_section, page_number, severity, suggested_rewrite, translation, rewrite_translation, chunk_language) ==
    [problematic_text |-> problematic_text,
     violation_type |-> violation_type,
     explanation |-> explanation,
     guideline_section |-> guideline_section,
     page_number |-> page_number,
     severity |-> severity,
     suggested_rewrite |-> suggested_rewrite,
     translation |-> translation,
     rewrite_translation |-> rewrite_translation,
     chunk_language |-> chunk_language,
     source_audit_id |-> PyNone]

(***************************************************************************)
(* AuditOrchestrator._sanitize_violations                                  *)
(***************************************************************************)
blacklist ==
    << <<"n","o"," ","v","i","o","l","a","t","i","o","n">>,
       <<"n","o"," ","i","s","s","u","e">>,
       <<"c","o","m","p","l","i","a","n","t">>,
       <<"n","o","n","e">>,
       <<"n","/","a">>,
       <<"s","a","f","e">>,
       <<"p","a","s","s","e","d">> >>

\* the list ["n/a", "none", ""] of line 180
text_placeholders == { <<"n","/","a">>, <<"n","o","n","e">>, <<>> }

\* line 177
v_type_of(v) ==
    IF Truthy(v.violation_type) THEN Strip(Lower(v.violation_type.s)) ELSE <<>>

\* lines 178-179: `not v_type or any(term in v_type for term in blacklist)`
type_is_noise(v_type) ==
    \/ v_type = <<>>
    \/ \E k \in 1..Len(blacklist) : Contains(blacklist[k], v_type)

\* lines 177-181: the two `continue` conditions
sanitize_drops(v) ==
    \/ type_is_noise(v_type_of(v))
    \/ ~Truthy(v.problematic_text)
    \/ Lower(v.problematic_text.s) \in text_placeholders

RECURSIVE sanitize_skipping(_)
\* A loop that removes from the list it iterates over; Python then skips the
\* element that follows each removed one.
sanitize_skipping(violations) ==
    IF violations = <<>> THEN <<>>
    ELSE IF sanitize_drops(Head(violations))
         THEN IF Len(violations) = 1 THEN <<>>
              ELSE <<violations[2]>> \o sanitize_skipping(SubSeq(violations, 3, Len(violations)))
         ELSE <<Head(violations)>> \o sanitize_skipping(Tail(violations))

\* lines 171-183
sanitize_violations(violations) ==
    SelectSeq(violations, LAMBDA v : ~sanitize_drops(v))

(***************************************************************************)
(* Raw reply text.  A text is a sequence of lexical tokens:                *)
(*   "[" "]" "{" "}" ","        JSON punctuation                           *)
(*   "violations:" "content_name:"   an object key with its colon          *)
(*   "str"      a string literal ("no violation found")                    *)
(*   "str_tab"  a string literal with a raw tab in it (invalid JSON)       *)
(*   "str_cr"   a string literal with a raw carriage return in it          *)
(*   "num" "null"               a number literal (1), the null literal     *)
(*   "num_long"                 an integer literal of more digits than     *)
(*                              int() converts (4300 by default)           *)
(*   "v1" .. "v6"               a complete flat violation object           *)
(*   "ws" "tab" "cr"            whitespace characters                      *)
(*   "fence" "json" "prose"     a ``` fence, the language tag, other words *)
(***************************************************************************)
StrTokenValue == PyStr(<<"n","o"," ","v","i","o","l","a","t","i","o","n"," ","f","o","u","n","d">>)

\* the flat violation objects the replies are built from
VDictTokens == {"v1", "v2", "v3", "v4", "v5", "v6"}

VDict(tok) ==
    CASE tok = "v1" ->
           [problematic_text |-> PyStr(<<"W","i","n"," ","b","i","g">>),
            violation_type |-> PyStr(<<"M","i","s","l","e","a","d","i","n","g">>),
            explanation |-> PyStr(<<"e">>),
            guideline_section |-> PyStr(<<"4">>),
            page_number |-> PyInt(3),
            severity |-> PyStr(<<"h","i","g","h">>),
            suggested_rewrite |-> PyStr(<<"r">>)]
      [] tok = "v2" ->
           [problematic_text |-> PyStr(<<"N","/","A">>),
            violation_type |-> PyStr(<<"N","o"," ","V","i","o","l","a","t","i","o","n"," ","F","o","u","n","d">>),
            explanation |-> PyStr(<<"e">>),
            guideline_section |-> PyStr(<<"4">>),
            page_number |-> PyInt(0),
            severity |-> PyStr(<<"l","o","w">>),
            suggested_rewrite |-> PyStr(<<"r">>)]
      [] tok = "v3" ->
           [problematic_text |-> PyStr(<<"R","i","s","k"," ","f","r","e","e">>),
            violation_type |-> PyStr(<<"U","n","s","a","f","e"," ","C","l","a","i","m">>),
            explanation |-> PyStr(<<"e">>),
            guideline_section |-> PyInt(2),
            page_number |-> PyStr(<<"7">>),
            severity |-> PyStr(<<"C","R","I","T","I","C","A","L"," ">>),
            suggested_rewrite |-> PyStr(<<"r">>),
            translation |-> PyStr(<<"t">>),
            rewrite_translation |-> PyStr(<<"u">>),
            chunk_language |-> PyStr(<<"d","e">>)]
      [] tok = "v4" ->
           [problematic_text |-> PyStr(<<"W","i","n"," ","b","i","g">>),
            violation_type |-> PyStr(<<"M","i","s","l","e","a","d","i","n","g">>),
            severity |-> PyNone]
      [] tok = "v6" ->
           [problematic_text |-> PyStr(<<"C","u","r","e","s"," ","a","l","l","!">>),
            violation_type |-> PyStr(<<"M","e","d","i","c","a","l"," ","C","l","a","i","m">>),
            explanation |-> PyStr(<<"e">>),
            guideline_section |-> PyStr(<<"9">>),
            page_number |-> PyInt(12),
            severity |-> PyStr(<<"l","o","w">>),
            suggested_rewrite |-> PyStr(<<"r">>),
            translation |-> PyStr(<<"t">>),
            rewrite_translation |-> PyStr(<<"u">>),
            chunk_language |-> PyStr(<<"d","e">>)]
      [] OTHER ->
           [problematic_text |-> PyStr(<<"L","o","s","e">>),
            severity |-> PyStr(<<"u","r","g","e","n","t">>),
            translation |-> PyNone]

WsTokens == {"ws", "tab", "cr"}

\* first position >= i that holds no whitespace (Len + 1 when there is none)
RECURSIVE SkipWs(_, _)
SkipWs(toks, i) ==
    IF i <= Len(toks) /\ toks[i] \in WsTokens THEN SkipWs(toks, i + 1) ELSE i

\* str.strip() on a text
StripText(text) ==
    IF \A i \in 1..Len(text) : text[i] \in WsTokens THEN <<>>
    ELSE LET first == SkipWs(text, 1)
             last == CHOOSE i \in 1..Len(text) :
                          /\ text[i] \notin WsTokens
                          /\ \A j \in (i+1)..Len(text) : text[j] \in WsTokens
         IN SubSeq(text, first, last)

(***************************************************************************)
(* json.loads on a token sequence                                          *)
(***************************************************************************)
JList(items) == [t |-> "list", items |-> items]
JDict(d) == [t |-> "dict", d |-> d]
JSONDecodeError == [ok |-> FALSE, exc |-> "JSONDecodeError", val |-> PyNone, next |-> 0]
\* the ValueError of int() on a literal over the digit limit; it is not a
\* JSONDecodeError
IntDigitsError == [ok |-> FALSE, exc |-> "ValueError", val |-> PyNone, next |-> 0]
Decoded(val, next) == [ok |-> TRUE, exc |-> "", val |-> val, next |-> next]
NoKeys == [k \in {} |-> PyNone]
KeyTokens == {"violations:", "content_name:"}
KeyName(tok) == IF tok = "violations:" THEN "violations" ELSE "content_name"

RECURSIVE DecodeValue(_, _)
RECURSIVE DecodeItems(_, _, _)
RECURSIVE DecodeMembers(_, _, _)

\* one JSON value starting at position i
DecodeValue(toks, i) ==
    IF i > Len(toks) THEN JSONDecodeError
    ELSE CASE toks[i] = "[" ->
                LET j == SkipWs(toks, i + 1)
                IN IF j <= Len(toks) /\ toks[j] = "]"
                   THEN Decoded(JList(<<>>), j + 1)
                   ELSE DecodeItems(toks, j, <<>>)
           [] toks[i] = "{" ->
                LET j == SkipWs(toks, i + 1)
                IN IF j <= Len(toks) /\ toks[j] = "}"
                   THEN Decoded(JDict(NoKeys), j + 1)
                   ELSE DecodeMembers(toks, j, NoKeys)
           [] toks[i] \in VDictTokens -> Decoded(JDict(VDict(toks[i])), i + 1)
           [] toks[i] = "str" -> Decoded(StrTokenValue, i + 1)
           [] toks[i] = "num" -> Decoded(PyInt(1), i + 1)
           [] toks[i] = "num_long" -> IntDigitsError
           [] toks[i] = "null" -> Decoded(PyNone, i + 1)
           [] OTHER -> JSONDecodeError

\* the items of an array, the first starting at i
DecodeItems(toks, i, acc) ==
    LET r == DecodeValue(toks, i)
    IN IF ~r.ok THEN r
       ELSE LET j == SkipWs(toks, r.next)
            IN IF j > Len(toks) THEN JSONDecodeError
               ELSE IF toks[j] = ","
                    THEN DecodeItems(toks, SkipWs(toks, j + 1), Append(acc, r.val))
               ELSE IF toks[j] = "]"
                    THEN Decoded(JList(Append(acc, r.val)), j + 1)
               ELSE JSONDecodeError

\* the members of an object, the first key at i; a repeated key keeps the last
DecodeMembers(toks, i, acc) ==
    IF i > Len(toks) \/ toks[i] \notin KeyTokens THEN JSONDecodeError
    ELSE LET r == DecodeValue(toks, SkipWs(toks, i + 1))
         IN IF ~r.ok THEN r
            ELSE LET j == SkipWs(toks, r.next)
                     d == (KeyName(toks[i]) :> r.val) @@ acc
                 IN IF j > Len(toks) THEN JSONDecodeError
                    ELSE IF toks[j] = ","
                         THEN DecodeMembers(toks, SkipWs(toks, j + 1), d)
                    ELSE IF toks[j] = "}"
                         THEN Decoded(JDict(d), j + 1)
                    ELSE JSONDecodeError

\* json.loads: one value, whitespace around it, nothing else
json_loads(toks) ==
    LET r == DecodeValue(toks, SkipWs(toks, 1))
    IN IF r.ok /\ SkipWs(toks, r.next) # Len(toks) + 1 THEN JSONDecodeError ELSE r

(***************************************************************************)
(* core/parser.py: ResponseParser                                          *)
(***************************************************************************)
NoStructure == [found |-> FALSE, json |-> <<>>]
Structure(toks) == [found |-> TRUE, json |-> toks]

\* The matches of  ```(?:json)?\s*(\[[\s\S]*?\])\s*```  that start at fence i:
\* the group starts at the "[" after the optional tag and whitespace
FenceGroupStart(text, i) ==
    LET afterTag == IF i + 1 <= Len(text) /\ text[i + 1] = "json" THEN i + 2 ELSE i + 1
    IN SkipWs(text, afterTag)

\* ... and ends at a "]" that only whitespace separates from a closing fence
FenceGroupEnds(text, i) ==
    LET b == FenceGroupStart(text, i)
    IN IF b <= Len(text) /\ text[b] = "["
       THEN {e \in (b + 1)..Len(text) :
                /\ text[e] = "]"
                /\ SkipWs(text, e + 1) <= Len(text)
                /\ text[SkipWs(text, e + 1)] = "fence"}
       ELSE {}

Min(S) == CHOOSE x \in S : \A y \in S : x <= y

\* re.search: the leftmost fence with a match; [\s\S]*? takes the nearest end
FenceStarts(text) ==
    {i \in 1..Len(text) : text[i] = "fence" /\ FenceGroupEnds(text, i) # {}}

\* lines 58-73 on the stripped text
extract_from_stripped(stripped) ==
    IF FenceStarts(stripped) # {}                                     \* lines 59-61
    THEN Structure(SubSeq(stripped,
                          FenceGroupStart(stripped, Min(FenceStarts(stripped))),
                          Min(FenceGroupEnds(stripped, Min(FenceStarts(stripped))))))
    \* lines 65-67: ^\s*(\[[\s\S]*\])\s*$ on the stripped text
    ELSE IF /\ Len(stripped) >= 2
            /\ stripped[1] = "["
            /\ stripped[Len(stripped)] = "]"
         THEN Structure(stripped)
    \* lines 70-71: startswith('[') and endswith(']')
    ELSE IF /\ stripped # <<>>
            /\ stripped[1] = "["
            /\ stripped[Len(stripped)] = "]"
         THEN Structure(stripped)
    ELSE NoStructure                                                  \* line 73

\* _extract_json_structure, lines 48-73
extract_json_structure(text) ==
    IF text = <<>> THEN NoStructure                                   \* line 53
    ELSE extract_from_stripped(StripText(text))                       \* line 56

\* _heuristic_fix_json, line 87: '\t' -> four spaces, '\r' -> removed
FixToken(tok) ==
    CASE tok = "tab" -> <<"ws">>
      [] tok = "cr" -> <<>>
      [] tok \in {"str_tab", "str_cr"} -> <<"str">>
      [] OTHER -> <<tok>>

RECURSIVE heuristic_fix_json(_)
heuristic_fix_json(bad_json) ==
    IF bad_json = <<>> THEN <<>>
    ELSE FixToken(Head(bad_json)) \o heuristic_fix_json(Tail(bad_json))

\* an exception, or a returned value
Raised(name) == [exc |-> name, val |-> <<>>]
Returned(val) == [exc |-> "", val |-> val]

\* Severity.from_string, core/models.py lines 22-28: None.lower() and
\* (1).lower() raise AttributeError, which `except ValueError` lets through
Severity_from_string(value) ==
    IF value.t # "str" THEN Raised("AttributeError")
    ELSE IF \E sev \in {<<"c","r","i","t","i","c","a","l">>, <<"h","i","g","h">>, <<"m","e","d","i","u","m">>, <<"l","o","w">>} : Strip(Lower(value.s)) = sev
         THEN Returned(PyStr(Strip(Lower(value.s))))
         ELSE Returned(PyStr(<<"m","e","d","i","u","m">>))

\* dict.get(key, default)
Get(d, key, default) == IF key \in DOMAIN d THEN d[key] ELSE default

Digits == <<"0","1","2","3","4","5","6","7","8","9">>

RECURSIVE NatToChars(_)
NatToChars(k) ==
    IF k < 10 THEN <<Digits[k + 1]>>
    ELSE NatToChars(k \div 10) \o <<Digits[(k % 10) + 1]>>

\* str(x) for a str, None or a non-negative int
ToStr(x) ==
    CASE x.t = "str" -> x
      [] x.t = "none" -> PyStr(<<"N","o","n","e">>)
      [] OTHER -> PyStr(NatToChars(x.n))

\* lines 122-135: the Violation built from one raw dict, given its severity
map_with_severity(v_dict, sev) ==
    IF sev.exc # "" THEN Raised(sev.exc)
    ELSE Returned(Violation(
             Get(v_dict, "problematic_text", PyStr(<<"N","/","A">>)),
             Get(v_dict, "violation_type", PyStr(<<"U","n","k","n","o","w","n">>)),
             Get(v_dict, "explanation", PyStr(<<"N","o"," ","e","x","p","l","a","n","a","t","i","o","n">>)),
             ToStr(Get(v_dict, "guideline_section", PyStr(<<"N","/","A">>))),
             Get(v_dict, "page_number", PyInt(0)),
             sev.val,
             Get(v_dict, "suggested_rewrite", PyStr(<<"N","/","A">>)),
             Get(v_dict, "translation", PyNone),
             Get(v_dict, "rewrite_translation", PyNone),
             Get(v_dict, "chunk_language", PyStr(<<"E","n","g","l","i","s","h">>))))

\* lines 122-135
map_one(v_dict) ==
    map_with_severity(v_dict,
        Severity_from_string(Get(v_dict, "severity", PyStr(<<"m","e","d","i","u","m">>))))

\* one try around the whole loop: a record whose construction raised ends
\* the loop, and the records after it are not mapped
append_mapped_stopping(mapped, rest) ==
    IF mapped.exc # "" THEN Returned(<<>>)
    ELSE IF rest.exc # "" THEN rest
    ELSE Returned(<<mapped.val>> \o rest.val)

\* lines 136-139: a record that was built is appended, one whose
\* construction raised is skipped
append_mapped(mapped, rest) ==
    IF mapped.exc # "" THEN rest
    ELSE IF rest.exc # "" THEN rest
    ELSE Returned(<<mapped.val>> \o rest.val)

RECURSIVE map_raw_violations(_)
\* lines 116-139: the loop over one section's raw violations
map_raw_violations(raw_violations) ==
    IF raw_violations = <<>> THEN Returned(<<>>)
    ELSE IF Head(raw_violations).t # "dict"                           \* line 117
         THEN map_raw_violations(Tail(raw_violations))
    ELSE append_mapped(map_one(Head(raw_violations).d),
                       map_raw_violations(Tail(raw_violations)))

\* lines 109-116: what the `violations` value of a section contributes
map_section_violations(raw_violations) ==
    IF raw_violations.t = "str" THEN Returned(<<>>)                   \* line 112
    ELSE IF raw_violations.t = "list"
         THEN map_raw_violations(raw_violations.items)                \* lines 112-116
    ELSE Returned(<<>>)                   \* None, a number, a dict: nothing is added

\* lines 106-115: what one element of the decoded list contributes
map_section(section) ==
    IF section.t # "dict" THEN Returned(<<>>)                         \* line 106
    ELSE map_section_violations(Get(section.d, "violations", PyNone)) \* line 109

\* the violations of two parts, or the exception of the first that raised
extend(first, rest) ==
    IF first.exc # "" THEN first
    ELSE IF rest.exc # "" THEN rest
    ELSE Returned(first.val \o rest.val)

RECURSIVE map_sections(_)
\* line 102: the loop over the decoded list
map_sections(data) ==
    IF data = <<>> THEN Returned(<<>>)
    ELSE extend(map_section(Head(data)), map_sections(Tail(data)))

\* _map_data_to_violations, lines 91-141
map_data_to_violations(data) ==
    IF data.t # "list" THEN Returned(<<>>)                            \* lines 98-100
    ELSE map_sections(data.items)

\* lines 39-46: the healed text decoded, or the second failure
parse_healed(data) ==
    IF data.ok THEN map_data_to_violations(data.val)                  \* lines 40, 46
    ELSE IF data.exc = "JSONDecodeError" THEN Returned(<<>>)          \* lines 41-43
    ELSE Raised(data.exc)                       \* no handler for anything else

\* lines 32-46: the first json.loads, then the healing and the retry
parse_decoded(data, cleaned_json) ==
    IF data.ok THEN map_data_to_violations(data.val)                  \* lines 34, 46
    ELSE IF data.exc = "JSONDecodeError"                              \* line 35
         THEN parse_healed(json_loads(heuristic_fix_json(cleaned_json)))   \* lines 38-40
    ELSE Raised(data.exc)                       \* no handler for anything else

\* lines 28-46
parse_cleaned(cleaned_json) ==
    IF ~cleaned_json.found \/ cleaned_json.json = <<>>                \* lines 28-30
    THEN Returned(<<>>)
    ELSE parse_decoded(json_loads(cleaned_json.json), cleaned_json.json)

\* parse_to_violations, lines 20-46
parse_to_violations(raw_text) ==
    parse_cleaned(extract_json_structure(raw_text))                   \* line 26

(***************************************************************************)
(* Inputs of the direct applications                                       *)
(***************************************************************************)
\* the three reply shapes around one violation object
ShapeA(v) == <<"{", "violations:", "[", v, "]", "}">>
ShapeB(v) == <<"[", "{", "violations:", "[", v, "]", "}", "]">>
ShapeC(v) == <<"[", v, "]">>

\* a section whose name is a number too long for int()
LongNumberReply ==
    <<"[", "{", "content_name:", "num_long", ",", "violations:", "[", "v1", "]", "}", "]">>

OtherBodies ==
    { <<"[", "]">>,
      <<"[", "{", "violations:", "str", "}", "]">>,
      <<"[", "{", "violations:", "[", "v1", ",", "v2", "]", "}", ",", "ws",
             "{", "content_name:", "str", ",", "violations:", "str", "}", "]">>,
      <<"[", "{", "content_name:", "str", ",", "violations:",
             "[", "v1", ",", "num", ",", "v4", ",", "v3", "]", "}", "]">>,
      <<"[", "{", "content_name:", "str_tab", ",", "tab", "violations:",
             "[", "v1", "]", "}", "cr", "]">>,
      <<"[", "{", "violations:", "[", "v1", "]", "}">>,
      <<"[", "{", "violations:", "[", "v1", ",", "]", "}", "]">>,
      <<"[", "{", "content_name:", "str_tab", ",", "violations:", "[", "v1", "}", "]">>,
      <<"[", "num", ",", "str", ",", "null", ",", "[", "v1", "]", "]">>,
      <<"[", "{", "violations:", "{", "content_name:", "str", "}", "}", ",",
             "{", "violations:", "num", "}", ",", "{", "}", "]">>,
      <<"[", "v1", "]", "ws", "fence", "ws", "prose", "ws", "fence", "[", "v3", "]">>,
      LongNumberReply,
      <<"[", "{", "content_name:", "str_tab", ",", "violations:", "[", "num_long", "]", "}", "]">> }

Bodies == {ShapeA(v) : v \in VDictTokens} \cup {ShapeB(v) : v \in VDictTokens}
          \cup {ShapeC(v) : v \in VDictTokens} \cup OtherBodies

Bare(b) == b
Padded(b) == <<"ws">> \o b \o <<"ws", "tab">>
Fenced(b) == <<"fence", "json", "ws">> \o b \o <<"ws", "fence">>
FencedPlain(b) == <<"fence">> \o b \o <<"fence">>
ProseFenced(b) == <<"prose", "ws", "fence", "json", "ws">> \o b \o <<"ws", "fence", "ws", "prose">>
ProseBefore(b) == <<"prose", "ws">> \o b
ProseAfter(b) == b \o <<"ws", "prose">>
ProseAround(b) == <<"prose", "ws">> \o b \o <<"ws", "prose">>

ReplyTexts ==
    {Bare(b) : b \in Bodies} \cup {Padded(b) : b \in Bodies}
    \cup {Fenced(b) : b \in Bodies} \cup {FencedPlain(b) : b \in Bodies}
    \cup {ProseFenced(b) : b \in Bodies} \cup {ProseBefore(b) : b \in Bodies}
    \cup {ProseAfter(b) : b \in Bodies} \cup {ProseAround(b) : b \in Bodies}
    \cup {<<>>, <<"ws">>, <<"prose">>, <<"[">>, <<"fence", "json", "ws", "fence">>}

\* a Violation with the given type and text
Sample(violation_type, problematic_text) ==
    Violation(problematic_text, violation_type, PyStr(<<"e">>), PyStr(<<"4">>),
              PyInt(1), PyStr(<<"m","e","d","i","u","m">>), PyStr(<<"r">>), PyNone, PyNone,
              PyStr(<<"E","n","g","l","i","s","h">>))

SampleTypes ==
    { PyStr(<<"M","e","d","i","c","a","l"," ","C","l","a","i","m">>), PyStr(<<"M","i","s","l","e","a","d","i","n","g">>), PyStr(<<"U","n","s","a","f","e"," ","C","l","a","i","m">>), PyStr(<<" ","C","o","m","p","l","i","a","n","t"," ">>),
      PyStr(<<"N","o"," ","V","i","o","l","a","t","i","o","n"," ","F","o","u","n","d">>), PyStr(<<" ">>), PyNone }

SampleTexts == { PyStr(<<"W","i","n"," ","b","i","g">>), PyStr(<<"N","o","n","e">>), PyStr(<<" ","n","/","a">>), PyNone }

SampleViolations == {Sample(ty, tx) : ty \in SampleTypes, tx \in SampleTexts}

RECURSIVE ListsUpTo(_, _)
ListsUpTo(S, k) ==
    IF k = 0 THEN {<<>>}
    ELSE ListsUpTo(S, k - 1)
         \cup {Append(l, x) : l \in {m \in ListsUpTo(S, k - 1) : Len(m) = k - 1}, x \in S}

(***************************************************************************)
(* State of a run that has not been started, and of unused functions       *)
(***************************************************************************)
NoResult == [success |-> FALSE, text |-> <<>>, error |-> ""]

(***************************************************************************)
(* AuditOrchestrator._generate_markdown: the report as its parts           *)
(***************************************************************************)
\* lines 252-255
emoji(v) ==
    CASE v.severity.s = <<"c","r","i","t","i","c","a","l">> -> "red"
      [] v.severity.s = <<"h","i","g","h">> -> "orange"
      [] v.severity.s = <<"l","o","w">> -> "blue"
      [] OTHER -> "yellow"

\* lines 257-271: the block of one violation; the two translation lines are
\* written only for a truthy value
report_entry(v, count) ==
    [count |-> count,
     emoji |-> emoji(v),
     violation_type |-> v.violation_type,
     problematic_text |-> v.problematic_text,
     translation |-> IF Truthy(v.translation) THEN v.translation ELSE PyNone,
     explanation |-> v.explanation,
     guideline_section |-> v.guideline_section,
     page_number |-> v.page_number,
     suggested_rewrite |-> v.suggested_rewrite,
     rewrite_translation |-> IF Truthy(v.rewrite_translation) THEN v.rewrite_translation ELSE PyNone]

\* _generate_markdown, lines 242-275
generate_markdown(violations, count) ==
    [audits_performed |-> count,                                      \* line 244
     no_violations_found |-> violations = <<>>,                       \* lines 246-248
     entries |-> [k \in 1..Len(violations) |-> report_entry(violations[k], k)],
     total_violations |-> Len(violations)]                            \* line 274

\* no report was rendered
NoReport == [audits_performed |-> 0, no_violations_found |-> FALSE, entries |-> <<>>, total_violations |-> 0]

\* the JSON texts given to run_analysis, by what json.loads makes of them
\* a text that json.loads decodes to the value
JsonText(indent, data) == [valid |-> TRUE, indent |-> indent, data |-> data]
\* a text that json.loads raises on
NotJson == [valid |-> FALSE, indent |-> 0, data |-> [t |-> "none", big_chunks |-> <<>>]]
\* the dict {"big_chunks": [...]}
Document(big_chunks) == [t |-> "dict", big_chunks |-> big_chunks]
\* a list, which has no get()
ListValue == [t |-> "list", big_chunks |-> <<>>]

RunOff ==
    /\ audit_count = 0
    /\ semaphore = 0
    /\ task = <<>>
    /\ raw_results = <<>>
    /\ pc = "off"
    /\ all_violations = <<>>
    /\ successful_audits = 0
    /\ clean_input_violations = <<>>
    /\ unique_violations = <<>>
    /\ final_violations = <<>>
    /\ report = NoReport
    /\ dedup_result = NoResult
    /\ dedup_calls = 0
    /\ result = [status |-> "off", success |-> FALSE, error |-> ""]
    /\ content_json = NotJson
    /\ run_casino_mode = FALSE
    /\ enriched_json = NotJson
    /\ requests = <<>>

ParseOff == fn_text = <<>> /\ fn_parsed = Returned(<<>>)

SanitizeOff == fn_list = <<>> /\ fn_once = <<>> /\ fn_twice = <<>>

RestoreOff == fn_unique = <<>> /\ fn_original = <<>> /\ fn_restored = <<>>

\* an exception that the parsing or the walk of the document raises
NoException == <<>>

\* the page as extract_html_content gets it: the tree html.parser makes of
\* it, the marks of line 320 that its text has, and the exception that
\* making or walking the tree raises, if it does
Html(soup, markers, raises) == [soup |-> soup, markers |-> markers, raises |-> raises]

\* nothing was extracted
NoExtraction == [raised |-> FALSE, success |-> FALSE, json |-> <<>>, error |-> <<>>]

ExtractOff == fn_html = Html(<<>>, {}, NoException) /\ fn_casino = FALSE /\ fn_extracted = NoExtraction

InjectOff == fn_content = <<>> /\ fn_enriched = <<>>

MapOff == fn_data = PyNone /\ fn_mapped = Returned(<<>>)

BatchOff ==
    /\ batch_files = 0
    /\ batch_count = 0
    /\ batch_item = <<>>
    /\ batch_pc = "off"
    /\ batch_results = <<>>

MoreOff == InjectOff /\ MapOff /\ BatchOff

FnOff == fn_pc = "off" /\ ParseOff /\ SanitizeOff /\ RestoreOff /\ ExtractOff /\ MoreOff

(***************************************************************************)
(* SpecParse: parse_to_violations applied to one raw reply                 *)
(***************************************************************************)
ParseInit ==
    /\ RunOff
    /\ fn_pc = "parse0"
    /\ fn_text \in ReplyTexts
    /\ fn_parsed = Returned(<<>>)
    /\ SanitizeOff
    /\ RestoreOff
    /\ ExtractOff
    /\ MoreOff

ApplyParse ==
    /\ fn_pc = "parse0"
    /\ fn_parsed' = parse_to_violations(fn_text)
    /\ fn_pc' = "parse1"
    /\ UNCHANGED <<run_vars, fn_text, sanitize_vars, restore_vars, extract_vars, more_vars>>

SpecParse == ParseInit /\ [][ApplyParse]_vars

(***************************************************************************)
(* SpecSanitize: _sanitize_violations applied to a list, then to its result *)
(***************************************************************************)
SanitizeInit ==
    /\ RunOff
    /\ fn_pc = "san0"
    /\ fn_list \in ListsUpTo(SampleViolations, MaxListLen)
    /\ fn_once = <<>>
    /\ fn_twice = <<>>
    /\ ParseOff
    /\ RestoreOff
    /\ ExtractOff
    /\ MoreOff

ApplySanitize ==
    /\ fn_pc = "san0"
    /\ fn_once' = sanitize_violations(fn_list)
    /\ fn_pc' = "san1"
    /\ UNCHANGED <<run_vars, parse_vars, fn_list, fn_twice, restore_vars, extract_vars, more_vars>>

ApplySanitizeAgain ==
    /\ fn_pc = "san1"
    /\ fn_twice' = sanitize_violations(fn_once)
    /\ fn_pc' = "san2"
    /\ UNCHANGED <<run_vars, parse_vars, fn_list, fn_once, restore_vars, extract_vars, more_vars>>

SanitizeNext == ApplySanitize \/ ApplySanitizeAgain

SpecSanitize == SanitizeInit /\ [][SanitizeNext]_vars

(***************************************************************************)
(* AuditOrchestrator._normalize_key and _restore_translations              *)
(***************************************************************************)
IsWordChar(c) ==
    \/ \E i \in 1..Len(UpperLetters) : c = UpperLetters[i] \/ c = LowerLetters[i]
    \/ \E i \in 1..Len(Digits) : c = Digits[i]

\* line 214: the slice [:100]
KeyLength == 100

\* _normalize_key, lines 212-214: re.sub(r'[\W_]+', '', text.lower())[:100]
normalize_key(text) ==
    IF ~Truthy(text) THEN <<>>
    ELSE LET kept == SelectSeq(Lower(text.s), IsWordChar)
         IN SubSeq(kept, 1, IF Len(kept) < KeyLength THEN Len(kept) ELSE KeyLength)

\* lines 225 and 236: f"{v.page_number}-{v.violation_type}"
backup_key(v) == ToStr(v.page_number).s \o <<"-">> \o ToStr(v.violation_type).s

\* lines 221-226: the entry a dict holds for a key is the last one stored
LastIndex(S) == CHOOSE i \in S : \A j \in S : j <= i

\* a text_map that nothing was stored in
text_map_empty(original_list, key) == {}

text_map_keys(original_list, key) ==
    {i \in 1..Len(original_list) :
        /\ Truthy(original_list[i].translation)
        /\ normalize_key(original_list[i].problematic_text) # <<>>
        /\ normalize_key(original_list[i].problematic_text) = key}

backup_map_keys(original_list, key) ==
    {i \in 1..Len(original_list) :
        /\ Truthy(original_list[i].translation)
        /\ backup_key(original_list[i]) = key}

\* the (page, type) match tried before the text match
restore_one_backup_first(v, original_list) ==
    IF Truthy(v.translation) THEN v
    ELSE IF backup_map_keys(original_list, backup_key(v)) # {}
         THEN LET o == original_list[LastIndex(backup_map_keys(original_list, backup_key(v)))]
              IN [v EXCEPT !.translation = o.translation,
                           !.rewrite_translation = o.rewrite_translation]
    ELSE IF text_map_keys(original_list, normalize_key(v.problematic_text)) # {}
         THEN LET o == original_list[LastIndex(text_map_keys(original_list,
                                         normalize_key(v.problematic_text)))]
              IN [v EXCEPT !.translation = o.translation,
                           !.rewrite_translation = o.rewrite_translation]
    ELSE v

\* lines 228-238 for one record of unique_list
restore_one(v, original_list) ==
    IF Truthy(v.translation) THEN v                                   \* line 229
    ELSE IF text_map_keys(original_list, normalize_key(v.problematic_text)) # {}
         THEN LET o == original_list[LastIndex(text_map_keys(original_list,
                                         normalize_key(v.problematic_text)))]
              IN [v EXCEPT !.translation = o.translation,
                           !.rewrite_translation = o.rewrite_translation]
    ELSE IF backup_map_keys(original_list, backup_key(v)) # {}
         THEN LET o == original_list[LastIndex(backup_map_keys(original_list, backup_key(v)))]
              IN [v EXCEPT !.translation = o.translation,
                           !.rewrite_translation = o.rewrite_translation]
    ELSE v

\* _restore_translations, lines 216-240
restore_translations(unique_list, original_list) ==
    [k \in 1..Len(unique_list) |-> restore_one(unique_list[k], original_list)]

(***************************************************************************)
(* SpecRestore: _restore_translations applied to a filtered and an         *)
(* original list                                                           *)
(***************************************************************************)
\* n times the character c
Repeat(c, n) == [i \in 1..n |-> c]

\* texts of original records: the worded one and one of punctuation only
OriginalTexts ==
    { PyStr(<<"G","u","a","r","a","n","t","e","e","d"," ","1","0","0","%"," ","w","i","n","!">>),
      PyStr(<<"!","!","!">>) }

\* texts of filtered records: the worded one as the merge left it, one of
\* other punctuation, and one that no original has
FilteredTexts ==
    { PyStr(<<"G","u","a","r","a","n","t","e","e","d"," ","1","0","0","%"," ","w","i","n">>),
      PyStr(<<"?","?","?">>),
      PyStr(<<"L","o","s","e">>) }

\* (page_number, violation_type) of the records
PageAndType ==
    { <<PyInt(3), PyStr(<<"M","i","s","l","e","a","d","i","n","g">>)>>,
      <<PyStr(<<"7">>), PyStr(<<"M","e","d","i","c","a","l"," ","C","l","a","i","m">>)>> }

\* (translation, rewrite_translation) of original records
OriginalTranslations ==
    { <<PyNone, PyNone>>,
      <<PyStr(<<"t","1">>), PyStr(<<"u","1">>)>>,
      <<PyStr(<<"t","2">>), PyNone>> }

\* (translation, rewrite_translation) of filtered records
FilteredTranslations ==
    { <<PyNone, PyNone>>,
      <<PyStr(<<>>), PyStr(<<"w">>)>>,
      <<PyStr(<<"f">>), PyNone>> }

RestoreSample(text, pt, tr) ==
    Violation(text, pt[2], PyStr(<<"e">>), PyStr(<<"4">>), pt[1],
              PyStr(<<"m","e","d","i","u","m">>), PyStr(<<"r">>), tr[1], tr[2],
              PyStr(<<"d","e">>))

\* two records whose texts are longer than the key and differ only after it
LongOriginal ==
    RestoreSample(PyStr(Repeat("a", KeyLength) \o <<"b">>),
                  <<PyInt(3), PyStr(<<"M","i","s","l","e","a","d","i","n","g">>)>>,
                  <<PyStr(<<"t","3">>), PyStr(<<"u","3">>)>>)

LongFiltered ==
    RestoreSample(PyStr(Repeat("a", KeyLength) \o <<"c">>),
                  <<PyStr(<<"7">>), PyStr(<<"M","e","d","i","c","a","l"," ","C","l","a","i","m">>)>>,
                  <<PyNone, PyNone>>)

OriginalSamples ==
    {RestoreSample(tx, pt, tr) : tx \in OriginalTexts, pt \in PageAndType, tr \in OriginalTranslations}
    \cup {LongOriginal}

FilteredSamples ==
    {RestoreSample(tx, pt, tr) : tx \in FilteredTexts, pt \in PageAndType, tr \in FilteredTranslations}
    \cup {LongFiltered}

\* filtered lists: empty, every single record, and pairs of the records of
\* page 3 that have no translation
FilteredLists ==
    {<<>>} \cup {<<f>> : f \in FilteredSamples}
    \cup {<<f, g>> : f, g \in {x \in FilteredSamples : x.translation = PyNone /\ x.page_number = PyInt(3)}}

RestoreInit ==
    /\ RunOff
    /\ fn_pc = "restore0"
    /\ fn_unique \in FilteredLists
    /\ fn_original \in ListsUpTo(OriginalSamples, MaxOriginalLen)
    /\ fn_restored = <<>>
    /\ ParseOff
    /\ SanitizeOff
    /\ ExtractOff
    /\ MoreOff

ApplyRestore ==
    /\ fn_pc = "restore0"
    /\ fn_restored' = restore_translations(fn_unique, fn_original)
    /\ fn_pc' = "restore1"
    /\ UNCHANGED <<run_vars, parse_vars, sanitize_vars, fn_unique, fn_original, extract_vars, more_vars>>

SpecRestore == RestoreInit /\ [][ApplyRestore]_vars

(***************************************************************************)
(* AuditOrchestrator._inject_global_context.  A JSON text is its validity, *)
(* the indent it is written with, and the value it decodes to; a value is  *)
(* a dict with its big_chunks, or something else                           *)
(***************************************************************************)

\* sep.join(items)
RECURSIVE Join(_, _)
Join(items, sep) ==
    IF items = <<>> THEN <<>>
    ELSE IF Len(items) = 1 THEN items[1]
    ELSE items[1] \o sep \o Join(Tail(items), sep)

AppendNew(front, item) ==
    IF \E k \in 1..Len(front) : front[k] = item THEN front ELSE Append(front, item)

\* the items of a list without the repeated ones, in their first order
RECURSIVE Distinct(_)
Distinct(items) ==
    IF items = <<>> THEN <<>>
    ELSE AppendNew(Distinct(SubSeq(items, 1, Len(items) - 1)), items[Len(items)])

Reversed(items) == [k \in 1..Len(items) |-> items[Len(items) + 1 - k]]

\* the hash seeds of the interpreter: they decide the order of a set of strings
HashSeeds == {0, 1}

\* list(set(context_items)), in an order that the hash seed decides
list_of_set(items, hash_seed) == IF hash_seed = 0 THEN Distinct(items) ELSE Reversed(Distinct(items))

\* line 150
context_prefixes == {<<"H","1",":">>, <<"L","E","A","D",":">>, <<"S","U","M","M","A","R","Y",":">>, <<"S","U","B","T","I","T","L","E",":">>}

\* lines 150-154: what one item adds to context_items
harvest_item(item) ==
    (IF \E prefix \in context_prefixes : Contains(prefix, item) THEN <<item>> ELSE <<>>)
        \o (IF Contains(<<"W","A","R","N","I","N","G">>, item) \/ Contains(<<"1","8","+">>, item) THEN <<item>> ELSE <<>>)

RECURSIVE harvest_items(_)
\* line 148: the loop over the small_chunks of a chunk
harvest_items(small_chunks) ==
    IF small_chunks = <<>> THEN <<>>
    ELSE harvest_item(Head(small_chunks)) \o harvest_items(Tail(small_chunks))

RECURSIVE harvest_chunks(_)
\* lines 146-154: the loop over the chunks
harvest_chunks(chunks) ==
    IF chunks = <<>> THEN <<>>
    ELSE harvest_items(Head(chunks).small_chunks) \o harvest_chunks(Tail(chunks))

\* lines 159 and 164: the line that is put into the chunks
context_marker(context_items) ==
    <<"*","*","*"," ","G","L","O","B","A","L"," ","P","A","G","E"," ","C","O","N","T","E","X","T"," ","(","A","p","p","l","y"," ","t","o"," ","t","h","i","s"," ","s","e","c","t","i","o","n",")",":"," ">> \o Join(context_items, <<" ","|","|"," ">>) \o <<" ","*","*","*">>

\* the line put after the lines of the chunk
insert_marker_last(chunk, line) == [chunk EXCEPT !.small_chunks = Append(@, line)]

\* line 164: chunk['small_chunks'].insert(0, ...)
insert_marker(chunk, line) == [chunk EXCEPT !.small_chunks = <<line>> \o @]

\* lines 162-164: the loop over the chunks
inject_chunks(chunks, line) == [k \in 1..Len(chunks) |-> insert_marker(chunks[k], line)]

\* line 166: json.dumps(data, indent=2, ensure_ascii=False)
json_dumps(data) == JsonText(2, data)

\* lines 157-166
injected(json_content, data, context_items) ==
    IF context_items = <<>> THEN json_content                         \* line 157
    ELSE json_dumps([data EXCEPT !.big_chunks = inject_chunks(@, context_marker(context_items))])

\* lines 143-166: a value without get() raises, and line 169 returns the input
inject_decoded(json_content, data, hash_seed) ==
    IF data.t # "dict" THEN json_content
    ELSE injected(json_content, data, list_of_set(harvest_chunks(data.big_chunks), hash_seed))

\* _inject_global_context, lines 136-169
inject_global_context(json_content, hash_seed) ==
    IF ~json_content.valid THEN json_content                          \* lines 142, 167-169
    ELSE inject_decoded(json_content, json_content.data, hash_seed)

\* chunks of the documents given to it: a name and the lines
ChunkSample(content_name, small_chunks) == [content_name |-> content_name, small_chunks |-> small_chunks]

ChunkSamples ==
    {ChunkSample(<<"P","a","g","e"," ","M","e","t","a","d","a","t","a"," ","&"," ","S","u","m","m","a","r","y">>, <<<<"H","1",":"," ","A","c","m","e">>, <<"L","E","A","D",":"," ","C","o","m","e">>>>),
     ChunkSample(<<"I","n","t","r","o","d","u","c","t","i","o","n">>, <<<<"C","O","N","T","E","N","T",":"," ","x"," ","y">>>>),
     ChunkSample(<<"S">>, <<<<"H","2",":"," ","S">>, <<"C","O","N","T","E","N","T",":"," ","x"," ","y">>>>),
     ChunkSample(<<"T","e","r","m","s">>, <<<<"W","A","R","N","I","N","G",":"," ","z">>, <<"C","O","N","T","E","N","T",":"," ","1","8","+"," ","o","n","l","y">>>>),
     ChunkSample(<<"R","u","l","e","s">>, <<<<"C","O","N","T","E","N","T",":"," ","s","e","e"," ","H","1",":"," ","A","c","m","e">>, <<"H","1",":"," ","A","c","m","e">>>>),
     ChunkSample(<<"E","m","p","t","y">>, <<<<"N","o"," ","c","o","n","t","e","n","t"," ","f","o","u","n","d">>>>)}

\* the samples numbered as the extractors number their chunks
Numbered(samples) ==
    [k \in 1..Len(samples) |->
        [big_chunk_index |-> k, content_name |-> samples[k].content_name,
         small_chunks |-> samples[k].small_chunks]]

RECURSIVE SampleListsUpTo(_, _)
SampleListsUpTo(samples, n) ==
    IF n = 0 THEN {<<>>}
    ELSE SampleListsUpTo(samples, n - 1)
            \cup {Append(list, c) : list \in SampleListsUpTo(samples, n - 1), c \in samples}

\* the texts given to it: documents of the extractors' shape, written with
\* the indent of the extractors or without, a text that is no JSON, and
\* the JSON of a list
InjectInputs ==
    {JsonText(indent, Document(Numbered(list))) :
        indent \in {0, 2}, list \in SampleListsUpTo(ChunkSamples, MaxChunks)}
    \cup {NotJson, JsonText(0, ListValue)}

InjectInit ==
    /\ RunOff
    /\ fn_pc = "inject0"
    /\ ParseOff /\ SanitizeOff /\ RestoreOff /\ ExtractOff /\ MapOff /\ BatchOff
    /\ fn_content \in {<<text>> : text \in InjectInputs}
    /\ fn_enriched = <<>>

ApplyInject ==
    /\ fn_pc = "inject0"
    /\ \E hash_seed \in HashSeeds : fn_enriched' = <<inject_global_context(fn_content[1], hash_seed)>>
    /\ fn_pc' = "inject1"
    /\ UNCHANGED <<run_vars, parse_vars, sanitize_vars, restore_vars, extract_vars, fn_content,
                   map_vars, batch_vars>>

SpecInject == InjectInit /\ [][ApplyInject]_vars

(***************************************************************************)
(* OpenAIService.get_response_async: what a call returns to its caller     *)
(***************************************************************************)
\* line 98
Success(text) == [success |-> TRUE, text |-> text, error |-> ""]
\* line 69
Timeout == [success |-> FALSE, text |-> <<>>, error |-> "Timeout"]
\* lines 90, 94, 103, 106, 110
Failed == [success |-> FALSE, text |-> <<>>, error |-> "Error"]

\* replies of the auditor agent
AuditorReplies ==
    { Fenced(<<"[", "{", "violations:", "[", "v1", ",", "v2", "]", "}", "]">>),
      ShapeB("v6"),
      ShapeB("v2"),
      <<"[", "{", "content_name:", "str", ",", "violations:", "str", "}", "]">>,
      LongNumberReply,
      <<>> }

\* replies of the filter agent
FilterReplies ==
    { ShapeB("v1"),
      <<"[", "{", "violations:", "[", "v6", ",", "v2", "]", "}", "]">>,
      ProseBefore(ShapeB("v1")),
      <<"prose", "ws", "prose">>,
      LongNumberReply,
      <<>> }

AuditorOutcomes == {Success(text) : text \in AuditorReplies} \cup {Timeout, Failed}
FilterOutcomes == {Success(text) : text \in FilterReplies} \cup {Timeout, Failed}

(***************************************************************************)
(* AuditOrchestrator.run_analysis                                          *)
(***************************************************************************)
\* line 26
MAX_CONCURRENT_AUDITS == 3

\* lines 32-33: the two auditor agents named in the secrets
regular_id == "regular_assistant_id"
casino_id == "casino_assistant_id"

\* line 50
target_assistant_id(casino) == IF casino THEN casino_id ELSE regular_id

\* lines 59-63: the arguments of get_response_async for task index (1-based);
\* task_name is "Audit #index"
call_request(index, content, assistant_id) ==
    [content |-> content, assistant_id |-> assistant_id, task_name |-> index]

\* documents given to run_analysis: one without context lines, one with, and
\* a text that is no JSON
PlainDocument == JsonText(2, Document(Numbered(<<ChunkSample(<<"I","n","t","r","o","d","u","c","t","i","o","n">>, <<<<"C","O","N","T","E","N","T",":"," ","x"," ","y">>>>)>>)))
RunDocuments ==
    {PlainDocument,
     JsonText(2, Document(Numbered(<<ChunkSample(<<"P","a","g","e"," ","M","e","t","a","d","a","t","a"," ","&"," ","S","u","m","m","a","r","y">>, <<<<"H","1",":"," ","A","c","m","e">>, <<"L","E","A","D",":"," ","C","o","m","e">>>>), ChunkSample(<<"I","n","t","r","o","d","u","c","t","i","o","n">>, <<<<"C","O","N","T","E","N","T",":"," ","x"," ","y">>>>)>>))),
     NotJson}

\* a semaphore sized by the ensemble instead of the fixed cap
semaphore_sized_by_count == audit_count

\* line 54: asyncio.Semaphore(MAX_CONCURRENT_AUDITS)
semaphore_initial == MAX_CONCURRENT_AUDITS

\* findings tagged with the 0-based loop index instead of audit_id
tag_zero_based(violations, audit_id) ==
    [k \in 1..Len(violations) |-> [violations[k] EXCEPT !.source_audit_id = PyInt(audit_id - 1)]]

\* lines 78-79
tag(violations, audit_id) ==
    [k \in 1..Len(violations) |-> [violations[k] EXCEPT !.source_audit_id = PyInt(audit_id)]]

\* lines 76-80: one parsed reply added to the pool
pool_add(violations, rest, audit_id) ==
    IF violations.exc # "" THEN [exc |-> violations.exc, val |-> <<>>, count |-> 0]
    ELSE IF rest.exc # "" THEN rest
    ELSE IF violations.val = <<>> THEN rest                           \* line 76
    ELSE [exc |-> "",
          val |-> tag(violations.val, audit_id) \o rest.val,
          count |-> rest.count + 1]

\* lines 72-89 from result i on: the pooled findings and the count of
\* successful audits, or the exception the parser let through
RECURSIVE pool(_, _)
pool(results, i) ==
    IF i > Len(results) THEN [exc |-> "", val |-> <<>>, count |-> 0]
    ELSE IF ~(results[i].success /\ results[i].text # <<>>)           \* lines 74, 88
         THEN pool(results, i + 1)
    ELSE pool_add(parse_to_violations(results[i].text), pool(results, i + 1), i)

\* whether the filter agent is called: always for an ensemble
dedup_step_unguarded(count, clean) == IF count > 1 THEN "call" ELSE "skipped"

\* line 102 of run_analysis, then line 186 of _run_deduplication
dedup_step(count, clean) ==
    IF count > 1 /\ clean # <<>>
    THEN IF clean = <<>> THEN "nothing" ELSE "call"
    ELSE "skipped"

\* lines 204-207: the parsed reply with its translations restored
dedup_restored(deduped_list, violations) ==
    IF deduped_list.exc # "" THEN deduped_list
    ELSE Returned(restore_translations(deduped_list.val, violations))

\* a failed filter call gives back the empty final_list of line 202
dedup_outcome_losing(outcome, violations) ==
    IF outcome.success /\ outcome.text # <<>>
    THEN dedup_restored(parse_to_violations(outcome.text), violations)
    ELSE Returned(<<>>)

\* _run_deduplication, lines 202-210: the list returned for the call's outcome
dedup_outcome(outcome, violations) ==
    IF outcome.success /\ outcome.text # <<>>                         \* line 203
    THEN dedup_restored(parse_to_violations(outcome.text), violations)
    ELSE Returned(violations)                                         \* line 210

\* the second sanitation left out
sanitize_outputs_skipped(violations) == violations

\* line 110: the second sanitation, of what the deduplication step gave
sanitize_outputs(violations) == sanitize_violations(violations)

Running == [status |-> "running", success |-> FALSE, error |-> ""]
\* lines 124-134
ReturnedSuccess == [status |-> "returned", success |-> TRUE, error |-> ""]
\* line 92
ReturnedFailure == [status |-> "returned", success |-> FALSE, error |-> "All audits failed."]
\* an exception that leaves run_analysis
RaisedOut == [status |-> "raised", success |-> FALSE, error |-> ""]

\* lines 44-70: run_analysis entered with its arguments; the context is
\* injected before any task is made
RunStart ==
    /\ enriched_json \in {inject_global_context(content_json, hash_seed) : hash_seed \in HashSeeds}
    /\ requests = [i \in 1..audit_count |-> <<>>]
    /\ semaphore = semaphore_initial
    /\ task = [i \in 1..audit_count |-> "queued"]
    /\ raw_results = [i \in 1..audit_count |-> [success |-> FALSE, text |-> <<>>, error |-> ""]]
    /\ pc = "gather"
    /\ all_violations = <<>>
    /\ successful_audits = 0
    /\ clean_input_violations = <<>>
    /\ unique_violations = <<>>
    /\ final_violations = <<>>
    /\ report = NoReport
    /\ dedup_result = NoResult
    /\ dedup_calls = 0
    /\ result = Running
    /\ FnOff

\* runs of every ensemble size on one document
Init ==
    /\ audit_count \in 1..MaxAudits
    /\ content_json = PlainDocument
    /\ run_casino_mode = FALSE
    /\ RunStart

\* runs on each document in each mode
RequestsInit ==
    /\ audit_count \in 1..MaxEnsemble
    /\ content_json \in RunDocuments
    /\ run_casino_mode \in BOOLEAN
    /\ RunStart

\* line 57: `async with semaphore` entered by task i.  Any waiting task may
\* be the one that gets a free slot.
Acquire(i) ==
    /\ task[i] = "queued"
    /\ semaphore > 0
    /\ semaphore' = semaphore - 1
    /\ task' = [task EXCEPT ![i] = "staggering"]
    /\ UNCHANGED <<audit_count, raw_results, pc, all_violations, successful_audits,
                   clean_input_violations, unique_violations, final_violations, report,
                   dedup_result, dedup_calls, result, request_vars, fn_vars>>

\* lines 58-59: the stagger sleep is over and the remote call starts
StartCall(i) ==
    /\ task[i] = "staggering"
    /\ task' = [task EXCEPT ![i] = "calling"]
    /\ requests' = [requests EXCEPT
                       ![i] = Append(@, call_request(i, enriched_json, target_assistant_id(run_casino_mode)))]
    /\ UNCHANGED <<audit_count, semaphore, raw_results, pc, all_violations,
                   successful_audits, clean_input_violations, unique_violations,
                   final_violations, report, dedup_result, dedup_calls, result,
                   content_json, run_casino_mode, enriched_json, fn_vars>>

\* a call that failed is made once more before its result is taken
ReturnCallRetrying(i) ==
    /\ task[i] = "calling"
    /\ \E outcome \in AuditorOutcomes :
          IF ~outcome.success /\ Len(requests[i]) < 2
          THEN /\ requests' = [requests EXCEPT ![i] = Append(@, @[1])]
               /\ UNCHANGED <<raw_results, task, semaphore>>
          ELSE /\ raw_results' = [raw_results EXCEPT ![i] = outcome]
               /\ task' = [task EXCEPT ![i] = "done"]
               /\ semaphore' = semaphore + 1
               /\ UNCHANGED requests
    /\ UNCHANGED <<audit_count, pc, all_violations, successful_audits,
                   clean_input_violations, unique_violations, final_violations, report,
                   dedup_result, dedup_calls, result, content_json, run_casino_mode,
                   enriched_json, fn_vars>>

\* lines 59-63: get_response_async returns and the semaphore is released
ReturnCall(i) ==
    /\ task[i] = "calling"
    /\ \E outcome \in AuditorOutcomes :
          raw_results' = [raw_results EXCEPT ![i] = outcome]
    /\ task' = [task EXCEPT ![i] = "done"]
    /\ semaphore' = semaphore + 1
    /\ UNCHANGED <<audit_count, pc, all_violations, successful_audits,
                   clean_input_violations, unique_violations, final_violations, report,
                   dedup_result, dedup_calls, result, request_vars, fn_vars>>

\* lines 66-106: gather has every result; pool, sanitize, and either return,
\* skip the filter agent, or start its remote call (line 195)
\* a coordinator that goes on as soon as one call has returned
gathered_first == \E i \in 1..audit_count : task[i] = "done"

\* line 65: `await asyncio.gather(*tasks)` returns when every task has
gathered == \A i \in 1..audit_count : task[i] = "done"

Aggregate ==
    /\ pc = "gather"
    /\ gathered
    /\ \E pooled \in {pool(raw_results, 1)} :
       \E clean \in {sanitize_violations(pooled.val)} :
          IF pooled.exc # ""
          THEN /\ result' = RaisedOut
               /\ pc' = "done"
               /\ UNCHANGED <<all_violations, successful_audits, clean_input_violations,
                              unique_violations, final_violations, report, dedup_calls>>
          ELSE /\ all_violations' = pooled.val
               /\ successful_audits' = pooled.count
               /\ IF pooled.count = 0                                  \* lines 91-92
                  THEN /\ result' = ReturnedFailure
                       /\ pc' = "done"
                       /\ UNCHANGED <<clean_input_violations, unique_violations,
                                      final_violations, report, dedup_calls>>
                  ELSE /\ clean_input_violations' = clean              \* line 96
                       /\ IF dedup_step(audit_count, clean) = "call"
                          THEN /\ dedup_calls' = dedup_calls + 1       \* line 195
                               /\ pc' = "dedup"
                               /\ UNCHANGED <<unique_violations, final_violations, report, result>>
                          ELSE /\ unique_violations' =                 \* lines 105, 186
                                      IF dedup_step(audit_count, clean) = "nothing"
                                      THEN <<>> ELSE clean
                               /\ final_violations' = sanitize_outputs(unique_violations')
                               /\ report' = generate_markdown(final_violations', pooled.count)
                               /\ result' = ReturnedSuccess
                               /\ pc' = "done"
                               /\ UNCHANGED dedup_calls
    /\ UNCHANGED <<audit_count, semaphore, task, raw_results, dedup_result, request_vars, fn_vars>>

\* lines 195-210 and 108-134: the filter call returns; restore, sanitize
\* again, return
DedupReturn ==
    /\ pc = "dedup"
    /\ \E outcome \in FilterOutcomes :
          /\ dedup_result' = outcome
          /\ \E unique \in {dedup_outcome(outcome, clean_input_violations)} :
                IF unique.exc # ""
                THEN /\ result' = RaisedOut
                     /\ UNCHANGED <<unique_violations, final_violations, report>>
                ELSE /\ unique_violations' = unique.val
                     /\ final_violations' = sanitize_outputs(unique.val)     \* line 110
                     /\ report' = generate_markdown(final_violations', successful_audits)
                     /\ result' = ReturnedSuccess
    /\ pc' = "done"
    /\ UNCHANGED <<audit_count, semaphore, task, raw_results, all_violations,
                   successful_audits, clean_input_violations, dedup_calls, request_vars, fn_vars>>

Next ==
    \/ \E i \in 1..audit_count : Acquire(i)
    \/ \E i \in 1..audit_count : StartCall(i)
    \/ \E i \in 1..audit_count : ReturnCall(i)
    \/ Aggregate
    \/ DedupReturn

Spec == Init /\ [][Next]_vars

SpecRequests == RequestsInit /\ [][Next]_vars

(***************************************************************************)
(* AnalysisProcessor.process_multi_file: the files of one batch, each      *)
(* analysed by its own run_analysis, all in one event loop                 *)
(***************************************************************************)
\* what the remote calls of a batch come to
BatchAuditorOutcomes == {Success(ShapeB("v6")), Timeout}
BatchFilterOutcomes == {Success(ShapeB("v1")), Failed}

\* the task of a file before the event loop has started it
ItemCreated ==
    [status |-> "none", pc |-> "created", semaphore |-> 0, task |-> <<>>, raw_results |-> <<>>,
     result |-> [success |-> FALSE, error |-> ""]]

\* processor.py lines 85-88, 91 and 98: the result of the file and the status told
ItemDone(it, success, error) ==
    [it EXCEPT !.pc = "done",
               !.status = IF success THEN "complete" ELSE "failed",
               !.result = [success |-> success, error |-> error]]

\* processor.py lines 78-98 for a run_analysis that returned success:
\* generate_word_report returns or raises
ItemReported(it, word_raises) ==
    IF word_raises THEN ItemDone(it, FALSE, "Exception") ELSE ItemDone(it, TRUE, "")

\* orchestrator.py lines 91-106 for the pooled findings of a file
ItemPooled(it, pooled, clean, count, word_raises) ==
    IF pooled.exc # "" THEN ItemDone(it, FALSE, pooled.exc)            \* processor.py line 95
    ELSE IF pooled.count = 0 THEN ItemDone(it, FALSE, "All audits failed.")
    ELSE IF dedup_step(count, clean) = "call" THEN [it EXCEPT !.pc = "dedup"]
    ELSE ItemReported(it, word_raises)

\* orchestrator.py lines 202-210 and 108-134, then processor.py lines 78-98
ItemFiltered(it, unique, word_raises) ==
    IF unique.exc # "" THEN ItemDone(it, FALSE, unique.exc)
    ELSE ItemReported(it, word_raises)

\* the sanitized pooled findings of a file, orchestrator.py line 96
ItemClean(it) == sanitize_violations(pool(it.raw_results, 1).val)

BatchInit ==
    /\ RunOff
    /\ fn_pc = "off"
    /\ ParseOff /\ SanitizeOff /\ RestoreOff /\ ExtractOff /\ InjectOff /\ MapOff
    /\ batch_files \in 1..MaxFiles
    /\ batch_count \in 1..MaxAudits
    /\ batch_item = [f \in 1..batch_files |-> ItemCreated]
    /\ batch_pc = "gather"
    /\ batch_results = <<>>

\* processor.py lines 71-76 and orchestrator.py lines 44-66: _process_item
\* of file f starts, tells 'processing' and enters run_analysis, which
\* makes its semaphore and its tasks
StartItem(f) ==
    /\ batch_item[f].pc = "created"
    /\ batch_item' = [batch_item EXCEPT ![f] =
           [@ EXCEPT !.status = "processing",
                     !.pc = "gather",
                     !.semaphore = semaphore_initial,
                     !.task = [i \in 1..batch_count |-> "queued"],
                     !.raw_results = [i \in 1..batch_count |-> NoResult]]]
    /\ UNCHANGED <<run_vars, fn_pc, parse_vars, sanitize_vars, restore_vars, extract_vars,
                   inject_vars, map_vars, batch_files, batch_count, batch_pc, batch_results>>

\* orchestrator.py line 57, in the run of file f
BatchAcquire(f, i) ==
    /\ batch_item[f].pc = "gather"
    /\ batch_item[f].task[i] = "queued"
    /\ batch_item[f].semaphore > 0
    /\ batch_item' = [batch_item EXCEPT ![f].semaphore = @ - 1, ![f].task[i] = "staggering"]
    /\ UNCHANGED <<run_vars, fn_pc, parse_vars, sanitize_vars, restore_vars, extract_vars,
                   inject_vars, map_vars, batch_files, batch_count, batch_pc, batch_results>>

\* orchestrator.py lines 58-59, in the run of file f
BatchStartCall(f, i) ==
    /\ batch_item[f].pc = "gather"
    /\ batch_item[f].task[i] = "staggering"
    /\ batch_item' = [batch_item EXCEPT ![f].task[i] = "calling"]
    /\ UNCHANGED <<run_vars, fn_pc, parse_vars, sanitize_vars, restore_vars, extract_vars,
                   inject_vars, map_vars, batch_files, batch_count, batch_pc, batch_results>>

\* orchestrator.py lines 59-63, in the run of file f
BatchReturnCall(f, i) ==
    /\ batch_item[f].pc = "gather"
    /\ batch_item[f].task[i] = "calling"
    /\ \E outcome \in BatchAuditorOutcomes :
          batch_item' = [batch_item EXCEPT ![f].semaphore = @ + 1,
                                           ![f].task[i] = "done",
                                           ![f].raw_results[i] = outcome]
    /\ UNCHANGED <<run_vars, fn_pc, parse_vars, sanitize_vars, restore_vars, extract_vars,
                   inject_vars, map_vars, batch_files, batch_count, batch_pc, batch_results>>

\* orchestrator.py lines 66-134 and processor.py lines 78-98: the gather of
\* file f has every result
ItemAggregate(f) ==
    /\ batch_item[f].pc = "gather"
    /\ \A i \in 1..batch_count : batch_item[f].task[i] = "done"
    /\ \E word_raises \in BOOLEAN :
          batch_item' = [batch_item EXCEPT ![f] =
              ItemPooled(@, pool(@.raw_results, 1), ItemClean(@), batch_count, word_raises)]
    /\ UNCHANGED <<run_vars, fn_pc, parse_vars, sanitize_vars, restore_vars, extract_vars,
                   inject_vars, map_vars, batch_files, batch_count, batch_pc, batch_results>>

\* orchestrator.py lines 195-210 and 108-134, processor.py lines 78-98: the
\* filter call of file f returns
ItemFilterReturn(f) ==
    /\ batch_item[f].pc = "dedup"
    /\ \E outcome \in BatchFilterOutcomes, word_raises \in BOOLEAN :
          batch_item' = [batch_item EXCEPT ![f] =
              ItemFiltered(@, dedup_outcome(outcome, ItemClean(@)), word_raises)]
    /\ UNCHANGED <<run_vars, fn_pc, parse_vars, sanitize_vars, restore_vars, extract_vars,
                   inject_vars, map_vars, batch_files, batch_count, batch_pc, batch_results>>

\* processor.py lines 106-117: the gather of the batch has every file
BatchReturn ==
    /\ batch_pc = "gather"
    /\ \A f \in 1..batch_files : batch_item[f].pc = "done"
    /\ batch_results' = [f \in 1..batch_files |-> batch_item[f].result]
    /\ batch_pc' = "returned"
    /\ UNCHANGED <<run_vars, fn_pc, parse_vars, sanitize_vars, restore_vars, extract_vars,
                   inject_vars, map_vars, batch_files, batch_count, batch_item>>

BatchNext ==
    \/ \E f \in 1..batch_files : StartItem(f)
    \/ \E f \in 1..batch_files, i \in 1..batch_count : BatchAcquire(f, i)
    \/ \E f \in 1..batch_files, i \in 1..batch_count : BatchStartCall(f, i)
    \/ \E f \in 1..batch_files, i \in 1..batch_count : BatchReturnCall(f, i)
    \/ \E f \in 1..batch_files : ItemAggregate(f)
    \/ \E f \in 1..batch_files : ItemFilterReturn(f)
    \/ BatchReturn

SpecBatch == BatchInit /\ [][BatchNext]_vars

(***************************************************************************)
(* The parsed page.  BeautifulSoup(html, 'html.parser') gives a tree; it   *)
(* is kept as the sequence of its nodes in document order, each with its   *)
(* own id and the id of its parent (0: the soup itself).  A NavigableString *)
(* is a node named "#text"; an element's text is the text of the "#text"   *)
(* nodes below it.                                                         *)
(***************************************************************************)
Element(id, parent, name, class, data_qa) ==
    [id |-> id, parent |-> parent, name |-> name, class |-> class, data_qa |-> data_qa,
     html_id |-> <<>>, itemtype |-> <<>>, itemprop |-> <<>>, style |-> <<>>, text |-> <<>>]

NavigableString(id, parent, text) ==
    [id |-> id, parent |-> parent, name |-> "#text", class |-> <<>>, data_qa |-> <<>>,
     html_id |-> <<>>, itemtype |-> <<>>, itemprop |-> <<>>, style |-> <<>>, text |-> text]

\* isinstance(x, Tag)
IsTag(node) == node.name # "#text"

\* the node of the soup that has the id
NodeOf(soup, id) == soup[CHOOSE k \in 1..Len(soup) : soup[k].id = id]

InSoup(soup, id) == \E k \in 1..Len(soup) : soup[k].id = id

RECURSIVE AncestorIds(_, _)
\* element.parents, without the soup itself
AncestorIds(soup, id) ==
    IF ~InSoup(soup, id) \/ NodeOf(soup, id).parent = 0 THEN {}
    ELSE {NodeOf(soup, id).parent} \cup AncestorIds(soup, NodeOf(soup, id).parent)

\* the ids of an element and of everything below it
SubtreeIds(soup, id) ==
    {id} \cup {soup[k].id : k \in {j \in 1..Len(soup) : id \in AncestorIds(soup, soup[j].id)}}

\* what is below the root (0: the whole soup)
Below(soup, root, node) == root = 0 \/ root \in AncestorIds(soup, node.id)

\* Tag.decompose() and Tag.extract(): the element and all below it leave the tree
decompose(soup, id) ==
    IF id = 0 THEN soup
    ELSE SelectSeq(soup, LAMBDA node : node.id \notin SubtreeIds(soup, id))

RECURSIVE TextOf(_, _)
TextOf(nodes, ids) ==
    IF nodes = <<>> THEN <<>>
    ELSE (IF Head(nodes).id \in ids THEN Head(nodes).text ELSE <<>>) \o TextOf(Tail(nodes), ids)

\* Tag.get_text(): the strings below the element, in document order
get_text(soup, id) == TextOf(soup, SubtreeIds(soup, id))

\* soup.get_text(): every string of the soup
soup_text(soup) == TextOf(soup, {soup[k].id : k \in 1..Len(soup)})

\* the ids of nodes
Ids(nodes) == [k \in 1..Len(nodes) |-> nodes[k].id]

\* find_all(names) below root: the ids, in document order
find_all(soup, root, names) ==
    Ids(SelectSeq(soup, LAMBDA node : node.name \in names /\ Below(soup, root, node)))

\* find(...): the first of the ids, or 0 for None
First(ids) == IF ids = <<>> THEN 0 ELSE ids[1]

\* the id of the first of some positions of the soup, 0 for None
FirstAt(soup, positions) == IF positions = {} THEN 0 ELSE soup[Min(positions)].id

next_sibling_at(soup, at) ==
    FirstAt(soup, {k \in (at + 1)..Len(soup) : soup[k].parent = soup[at].parent})

\* element.next_sibling: the next node with the same parent, 0 for None
next_sibling(soup, id) ==
    IF ~InSoup(soup, id) THEN 0
    ELSE next_sibling_at(soup, CHOOSE k \in 1..Len(soup) : soup[k].id = id)

\* utils/helpers.py clean_text, lines 55-58: strip, then every run of
\* whitespace becomes one space
RECURSIVE CollapseSpaces(_)
CollapseSpaces(s) ==
    IF s = <<>> THEN <<>>
    ELSE IF IsSpace(Head(s))
         THEN IF Len(s) > 1 /\ IsSpace(s[2]) THEN CollapseSpaces(Tail(s))
              ELSE <<" ">> \o CollapseSpaces(Tail(s))
    ELSE <<Head(s)>> \o CollapseSpaces(Tail(s))

clean_text(text) == CollapseSpaces(Strip(text))

(***************************************************************************)
(* core/html_extractor.py: HTMLContentExtractor.  self is the record of    *)
(* the soup being taken apart, big_chunks, chunk_index and                 *)
(* processed_elements.  Texts, class names and data-qa values are           *)
(* sequences of characters.                                                *)
(***************************************************************************)
\* the ids of the elements below root that the test accepts, in document order
find_where(soup, root, Test(_)) ==
    Ids(SelectSeq(soup, LAMBDA node : IsTag(node) /\ Below(soup, root, node) /\ Test(node)))

\* re.compile(r'^...').search(value)
StartsWith(prefix, s) == Len(s) >= Len(prefix) /\ SubSeq(s, 1, Len(prefix)) = prefix

\* find(class_=name)
find_class(soup, root, name) == First(find_where(soup, root, LAMBDA node : node.class = name))

\* find(tag, class_=name)
find_tag_class(soup, name, class) ==
    First(find_where(soup, 0, LAMBDA node : node.name = name /\ node.class = class))

\* find(attrs={'data-qa': value})
find_data_qa(soup, value) == First(find_where(soup, 0, LAMBDA node : node.data_qa = value))

\* a or b, of two elements that may be None
Or(a, b) == IF a # 0 THEN a ELSE b

\* lines 80-84: _preprocess_soup
preprocess_names ==
    {"script", "style", "nav", "footer", "aside", "header", "noscript", "iframe", "svg", "button", "form"}

RECURSIVE decompose_all(_, _)
decompose_all(soup, ids) ==
    IF ids = <<>> THEN soup ELSE decompose_all(decompose(soup, Head(ids)), Tail(ids))

preprocess_soup(soup) == decompose_all(soup, find_all(soup, 0, preprocess_names))

\* lines 86-100: _remove_casino_widgets
noise_patterns ==
    {<<"b","l","o","c","k","C","a","s","i","n","o">>, <<"w","i","d","g","e","t">>, <<"s","i","d","e","b","a","r">>, <<"r","e","l","a","t","e","d">>, <<"t","e","m","p","l","a","t","e","A","u","t","h","o","r">>, <<"t","e","m","p","l","a","t","e","F","o","o","t","e","r">>}

is_casino_widget(node) ==
    \E pattern \in noise_patterns : StartsWith(pattern, node.data_qa) \/ StartsWith(pattern, node.class)

remove_casino_widgets(soup) == decompose_all(soup, find_where(soup, 0, is_casino_widget))

\* lines 305-306: _get_element_id, the name and the first 50 characters of the text
ElementIdLength == 50

\* text[:n]
Prefix(text, n) == SubSeq(text, 1, Min({n, Len(text)}))

get_element_id(soup, id) == <<NodeOf(soup, id).name, Prefix(get_text(soup, id), ElementIdLength)>>

\* the id of the BeautifulSoup object itself, the last of element.parents
document_id(soup) == <<"[document]", Prefix(soup_text(soup), ElementIdLength)>>

\* lines 300-303: _is_child_of_processed
is_child_of_processed(soup, processed_elements, id) ==
    \/ document_id(soup) \in processed_elements
    \/ \E parent \in AncestorIds(soup, id) : get_element_id(soup, parent) \in processed_elements

\* lines 308-311: _mark_processed
mark_processed(soup, processed_elements, id) ==
    IF id = 0 THEN processed_elements
    ELSE processed_elements
            \cup {get_element_id(soup, child) : child \in {c \in SubtreeIds(soup, id) : IsTag(NodeOf(soup, c))}}

\* a big chunk of the output
BigChunk(big_chunk_index, content_name, small_chunks) ==
    [big_chunk_index |-> big_chunk_index, content_name |-> content_name, small_chunks |-> small_chunks]

\* lines 117-118 and alike: the labelled line of an element that was found,
\* and the element decomposed
take_metadata(m, id, label) ==
    IF id = 0 THEN m
    ELSE [soup |-> decompose(m.soup, id),
          metadata_items |-> Append(m.metadata_items, label \o clean_text(get_text(m.soup, id)))]

\* any(label in item for item in metadata_items)
any_item_has(label, metadata_items) ==
    \E k \in 1..Len(metadata_items) : Contains(label, metadata_items[k])

\* line 111: find(attrs={'data-qa': re.compile(r'templateIntro', re.I)})
find_intro_container(soup) ==
    First(find_where(soup, 0, LAMBDA node : Contains(Lower(<<"t","e","m","p","l","a","t","e","I","n","t","r","o">>), Lower(node.data_qa))))

\* lines 115-118
container_h1(m, intro_container) ==
    take_metadata(m, First(find_all(m.soup, intro_container, {"h1"})), <<"H","1",":"," ">>)

\* lines 121-124
container_subtitle(m, intro_container) ==
    take_metadata(m, Or(find_class(m.soup, intro_container, <<"s","u","b","-","t","i","t","l","e">>),
                        find_class(m.soup, intro_container, <<"s","u","b","t","i","t","l","e">>)), <<"S","U","B","T","I","T","L","E",":"," ">>)

\* lines 127-130
container_lead(m, intro_container) ==
    take_metadata(m, Or(find_class(m.soup, intro_container, <<"l","e","a","d">>),
                        find_class(m.soup, intro_container, <<"i","n","t","r","o">>)), <<"L","E","A","D",":"," ">>)

\* lines 113-130, strategy A: inside the container
metadata_in_container(m, intro_container) ==
    IF intro_container = 0 THEN m
    ELSE container_lead(container_subtitle(container_h1(m, intro_container), intro_container),
                        intro_container)

\* lines 136-154, strategy B: what is still missing, from the whole page
metadata_global(m, label, id) ==
    IF any_item_has(label, m.metadata_items) THEN m
    ELSE take_metadata(m, id, label \o <<" ">>)

summary_item(m, summary_block, text) ==
    [soup |-> decompose(m.soup, summary_block),
     metadata_items |-> IF text # <<>> THEN Append(m.metadata_items, <<"S","U","M","M","A","R","Y",":"," ">> \o text)
                        ELSE m.metadata_items]

\* lines 157-161: the summary block
metadata_summary(m, summary_block) ==
    IF summary_block = 0 THEN m
    ELSE summary_item(m, summary_block, clean_text(get_text(m.soup, summary_block)))

\* lines 136-140
global_h1(m) == metadata_global(m, <<"H","1",":">>, First(find_all(m.soup, 0, {"h1"})))

\* lines 143-147
global_subtitle(m) == metadata_global(m, <<"S","U","B","T","I","T","L","E",":">>, find_class(m.soup, 0, <<"s","u","b","-","t","i","t","l","e">>))

\* lines 150-154
global_lead(m) == metadata_global(m, <<"L","E","A","D",":">>, find_class(m.soup, 0, <<"l","e","a","d">>))

\* lines 157-161
summary_of(m) == metadata_summary(m, find_data_qa(m.soup, <<"b","l","o","c","k","C","a","s","i","n","o","S","u","m","m","a","r","y">>))

\* lines 107-161: the items of the metadata chunk and the soup without them
metadata_items_of(soup) ==
    summary_of(global_lead(global_subtitle(global_h1(
        metadata_in_container([soup |-> soup, metadata_items |-> <<>>], find_intro_container(soup))))))

\* lines 163-169: the chunk is appended when there are items
append_metadata(self, m) ==
    IF m.metadata_items = <<>> THEN [self EXCEPT !.soup = m.soup]
    ELSE [self EXCEPT !.soup = m.soup,
                      !.big_chunks = Append(@, BigChunk(self.chunk_index, <<"P","a","g","e"," ","M","e","t","a","d","a","t","a"," ","&"," ","S","u","m","m","a","r","y">>,
                                                        m.metadata_items)),
                      !.chunk_index = @ + 1]

\* lines 102-169: _extract_metadata_chunk
extract_metadata_chunk(self) == append_metadata(self, metadata_items_of(self.soup))

RECURSIVE StrippedTextOf(_, _)
StrippedTextOf(nodes, ids) ==
    IF nodes = <<>> THEN <<>>
    ELSE (IF Head(nodes).id \in ids THEN Strip(Head(nodes).text) ELSE <<>>)
            \o StrippedTextOf(Tail(nodes), ids)

\* Tag.get_text(strip=True): every string stripped, the empty ones left out
get_text_strip(soup, id) == StrippedTextOf(soup, SubtreeIds(soup, id))

\* lines 184-185: the first h2 or h3 whose text has 'faq' or 'frequently asked'
is_faq_header(text) == Contains(<<"f","a","q">>, Lower(text)) \/ Contains(<<"f","r","e","q","u","e","n","t","l","y"," ","a","s","k","e","d">>, Lower(text))

\* the first of the headers that was hit, 0 for None
FirstHit(headers, hits) == IF hits = {} THEN 0 ELSE headers[Min(hits)]

faq_header_among(soup, headers) ==
    FirstHit(headers, {k \in 1..Len(headers) : is_faq_header(get_text(soup, headers[k]))})

faq_header(soup) == faq_header_among(soup, find_all(soup, 0, {"h2", "h3"}))

RECURSIVE hunt_siblings(_, _)
\* lines 187-190: the walk over the siblings after the header.  A string is
\* passed over; a tag that is not h1 or h2 is extracted into the new div, and
\* an extracted tag has no next_sibling any more, so the walk ends with it;
\* an h1 or h2 ends the walk and stays in curr.
hunt_siblings(soup, curr) ==
    IF curr = 0 THEN [moved |-> 0, curr |-> 0]
    ELSE IF ~IsTag(NodeOf(soup, curr)) THEN hunt_siblings(soup, next_sibling(soup, curr))
    ELSE IF NodeOf(soup, curr).name \in {"h1", "h2"} THEN [moved |-> 0, curr |-> curr]
    ELSE [moved |-> curr, curr |-> 0]

Reparented(below, moved) ==
    [k \in 1..Len(below) |-> IF below[k].id = moved THEN [below[k] EXCEPT !.parent = 0] ELSE below[k]]

\* the tree of soup.new_tag('div') with the extracted tag in it: the div is
\* the root (0) of a tree of its own
detached(soup, moved) ==
    IF moved = 0 THEN <<>>
    ELSE Reparented(SelectSeq(soup, LAMBDA node : node.id \in SubtreeIds(soup, moved)), moved)

\* what mark_processed(element) adds
marks_of(tree, id) == mark_processed(tree, {}, id)

\* lines 186-191: the section of the header hunt
hunted_section(soup, header, hunt) ==
    [found |-> TRUE, attached |-> FALSE, tree |-> detached(soup, hunt.moved), root |-> 0,
     soup |-> decompose(decompose(soup, hunt.moved), header),
     curr_marks |-> marks_of(soup, hunt.curr)]

faq_section_from(soup, faq_section, header) ==
    IF faq_section # 0
    THEN [found |-> TRUE, attached |-> TRUE, tree |-> soup, root |-> faq_section,
          soup |-> soup, curr_marks |-> {}]
    ELSE IF header = 0
    THEN [found |-> FALSE, attached |-> FALSE, tree |-> <<>>, root |-> 0,
          soup |-> soup, curr_marks |-> {}]
    ELSE hunted_section(soup, header, hunt_siblings(soup, next_sibling(soup, header)))

\* lines 176-192: the FAQ section.  tree and root say where its elements
\* are, attached whether it is still part of the soup, curr_marks what
\* mark_processed(curr) would add for the curr the header hunt left behind.
faq_section_of(soup) ==
    faq_section_from(soup,
        Or(Or(find_data_qa(soup, <<"t","e","m","p","l","a","t","e","F","A","Q">>), find_class(soup, 0, <<"f","a","q","-","s","e","c","t","i","o","n">>)),
           First(find_where(soup, 0, LAMBDA node : Contains(<<"s","c","h","e","m","a",".","o","r","g","/","F","A","Q","P","a","g","e">>, node.itemtype)))),
        faq_header(soup))

\* questions = a or b, of two lists
OrList(a, b) == IF a # <<>> THEN a ELSE b

\* lines 197-199: the questions of the section
faq_questions(tree, root) ==
    OrList(find_where(tree, root, LAMBDA node : Contains(<<"s","c","h","e","m","a",".","o","r","g","/","Q","u","e","s","t","i","o","n">>, node.itemtype)),
           find_all(tree, root, {"h3", "h4", "h5", "strong", "b"}))

RECURSIVE answer_sibling(_, _)
\* lines 211-213: past the strings, the br and the span after a question
answer_sibling(tree, curr) ==
    IF curr = 0 THEN 0
    ELSE IF ~IsTag(NodeOf(tree, curr)) \/ NodeOf(tree, curr).name \in {"br", "span"}
    THEN answer_sibling(tree, next_sibling(tree, curr))
    ELSE curr

MinQuestionLength == 5

\* lines 218-221: a pair is one line, and its elements are marked
faq_pair(f, tree, q, q_text, a_text, curr_marks) ==
    IF a_text = <<>> THEN [f EXCEPT !.curr_marks = curr_marks]
    ELSE [faq_items |-> Append(f.faq_items, <<"F","A","Q","_","Q",":"," ">> \o q_text \o <<" ","/","/"," ","F","A","Q","_","A",":"," ">> \o a_text),
          processed_elements |-> f.processed_elements \cup marks_of(tree, q) \cup curr_marks,
          curr_marks |-> curr_marks]

\* lines 205-216: the answer of a question
faq_answer(f, tree, q, q_text, a_container, curr) ==
    IF a_container # 0
    THEN faq_pair(f, tree, q, q_text, clean_text(get_text(tree, a_container)), f.curr_marks)
    ELSE faq_pair(f, tree, q, q_text,
                  IF curr # 0 /\ NodeOf(tree, curr).name \in {"p", "div"}
                  THEN clean_text(get_text(tree, curr)) ELSE <<>>,
                  marks_of(tree, curr))

\* lines 202-221: one turn of the loop over the questions
faq_question(f, tree, q, q_text) ==
    IF q_text = <<>> \/ Len(q_text) < MinQuestionLength THEN f
    ELSE faq_answer(f, tree, q, q_text,
                    First(find_where(tree, q, LAMBDA node : node.itemprop = <<"a","c","c","e","p","t","e","d","A","n","s","w","e","r">>)),
                    answer_sibling(tree, next_sibling(tree, q)))

RECURSIVE faq_loop(_, _, _)
faq_loop(f, tree, questions) ==
    IF questions = <<>> THEN f
    ELSE faq_loop(faq_question(f, tree, Head(questions), clean_text(get_text(tree, Head(questions)))),
                  tree, Tail(questions))

\* lines 223-227: the section leaves the soup, and the items make the chunk
faq_result(self, section, f) ==
    [self |-> [self EXCEPT !.soup = IF section.attached THEN decompose(section.soup, section.root)
                                    ELSE section.soup,
                          !.processed_elements = f.processed_elements],
     faq_chunk |-> IF f.faq_items = <<>> THEN <<>>
                   ELSE <<[content_name |-> <<"F","r","e","q","u","e","n","t","l","y"," ","A","s","k","e","d"," ","Q","u","e","s","t","i","o","n","s">>,
                           small_chunks |-> f.faq_items]>>]

\* lines 194-227: the chunk (None: the empty sequence) and the soup without the section
faq_chunk_of(self, section) ==
    IF ~section.found THEN [self |-> self, faq_chunk |-> <<>>]
    ELSE faq_result(self, section,
                    faq_loop([faq_items |-> <<>>, processed_elements |-> self.processed_elements,
                              curr_marks |-> section.curr_marks],
                             section.tree, faq_questions(section.tree, section.root)))

\* lines 171-227: _extract_faq_chunk
extract_faq_chunk(self) == faq_chunk_of(self, faq_section_of(self.soup))

\* line 234
chunking_tags == {"h2", "h3", "h4", "p", "table", "ul", "ol", "dl"}

\* the mark of a warning in a text (U+26A0 U+FE0F), one character of the model
WarningSign == "U+26A0"

\* lines 246-258 and 285-298: the section collected so far is appended, or
\* else what came before the first h2
flush_section(c) ==
    IF c.current_chunk_content # <<>>
    THEN [c EXCEPT !.big_chunks = Append(@, BigChunk(c.chunk_index, c.current_section_name,
                                                     c.current_chunk_content)),
                   !.chunk_index = @ + 1]
    ELSE IF c.pre_h2_content # <<>>
    THEN [c EXCEPT !.big_chunks = Append(@, BigChunk(c.chunk_index, <<"I","n","t","r","o","d","u","c","t","i","o","n">>, c.pre_h2_content)),
                   !.chunk_index = @ + 1]
    ELSE c

\* lines 271 and 277: the stripped texts of the elements
texts_strip(soup, ids) == [k \in 1..Len(ids) |-> get_text_strip(soup, ids[k])]

\* line 274: the dt and dd of a dl, zipped
def_items(soup, dts, dds) ==
    [k \in 1..Min({Len(dts), Len(dds)}) |->
        Strip(get_text(soup, dts[k])) \o <<":"," ">> \o Strip(get_text(soup, dds[k]))]

\* line 277: the cells of every row
table_rows(soup, trs) ==
    [k \in 1..Len(trs) |-> Join(texts_strip(soup, find_all(soup, trs[k], {"td", "th"})), <<" ","|"," ">>)]

\* a line under its label, when there are items; None is the empty sequence
labelled(label, items) == IF items = <<>> THEN <<>> ELSE <<label \o Join(items, <<" ","/","/"," ">>)>>

\* lines 265-278: the line of an element that is not an h2
formatted_of(soup, element, name, text) ==
    IF Contains(<<"w","a","r","n","i","n","g">>, Lower(NodeOf(soup, element).class)) \/ Contains(<<WarningSign>>, text)
    THEN <<<<"W","A","R","N","I","N","G",":"," ">> \o text>>
    ELSE IF name = "h3" THEN <<<<"H","3",":"," ">> \o text>>
    ELSE IF name = "h4" THEN <<<<"H","4",":"," ">> \o text>>
    ELSE IF name = "p" THEN <<<<"C","O","N","T","E","N","T",":"," ">> \o text>>
    ELSE IF name \in {"ul", "ol"}
    THEN labelled(<<"L","I","S","T",":"," ">>, texts_strip(soup, find_all(soup, element, {"li"})))
    ELSE IF name = "dl"
    THEN labelled(<<"D","E","F","_","L","I","S","T",":"," ">>, def_items(soup, find_all(soup, element, {"dt"}),
                                            find_all(soup, element, {"dd"})))
    ELSE IF name = "table" THEN labelled(<<"T","A","B","L","E",":"," ">>, table_rows(soup, find_all(soup, element, {"tr"})))
    ELSE <<>>

\* lines 280-283: the line goes to the section, or before the first h2
add_formatted(soup, c, element, formatted) ==
    IF formatted = <<>> THEN c
    ELSE IF c.current_section_name = <<"M","a","i","n"," ","C","o","n","t","e","n","t">>
    THEN [c EXCEPT !.processed_elements = mark_processed(soup, @, element),
                   !.pre_h2_content = Append(@, formatted[1])]
    ELSE [c EXCEPT !.processed_elements = mark_processed(soup, @, element),
                   !.current_chunk_content = Append(@, formatted[1])]

\* lines 244-263: an h2 closes the section and opens the next
open_section(soup, c, element, text) ==
    [flush_section(c) EXCEPT !.current_chunk_content = <<<<"H","2",":"," ">> \o text>>,
                             !.current_section_name = text,
                             !.processed_elements = mark_processed(soup, @, element)]

\* lines 237-283: one turn of the loop over the elements
chunk_element(soup, c, element, name, text) ==
    IF is_child_of_processed(soup, c.processed_elements, element) THEN c
    ELSE IF text = <<>> /\ name # "table" THEN c
    ELSE IF name = "h2" THEN open_section(soup, c, element, text)
    ELSE add_formatted(soup, c, element, formatted_of(soup, element, name, text))

RECURSIVE chunk_loop(_, _, _)
chunk_loop(soup, c, elements) ==
    IF elements = <<>> THEN c
    ELSE chunk_loop(soup,
                    chunk_element(soup, c, Head(elements), NodeOf(soup, Head(elements)).name,
                                  clean_text(get_text(soup, Head(elements)))),
                    Tail(elements))

chunked(self, c) ==
    [self EXCEPT !.big_chunks = c.big_chunks, !.chunk_index = c.chunk_index,
                 !.processed_elements = c.processed_elements]

\* lines 229-298: _extract_with_direct_chunking
extract_with_direct_chunking(self, container) ==
    chunked(self, flush_section(chunk_loop(self.soup,
                      [current_chunk_content |-> <<>>, pre_h2_content |-> <<>>,
                       current_section_name |-> <<"M","a","i","n"," ","C","o","n","t","e","n","t">>, big_chunks |-> self.big_chunks,
                       chunk_index |-> self.chunk_index, processed_elements |-> self.processed_elements],
                      find_all(self.soup, container, chunking_tags))))

\* lines 48-55: the main wrapper of the page, None (0) when there is none
find_html_id(soup, value) == First(find_where(soup, 0, LAMBDA node : node.html_id = value))

main_wrapper_of(soup) ==
    Or(find_html_id(soup, <<"r","e","v","i","e","w">>),
    Or(find_tag_class(soup, "section", <<"w","r","a","p","p","e","r">>),
    Or(find_tag_class(soup, "div", <<"w","r","a","p","p","e","r">>),
    Or(First(find_all(soup, 0, {"main"})),
    Or(First(find_all(soup, 0, {"article"})),
       find_tag_class(soup, "div", <<"c","o","n","t","e","n","t">>))))))

\* lines 61 and 72: soup.find('body') or soup
body_of(soup) == First(find_all(soup, 0, {"body"}))

\* lines 65-68: the FAQ chunk comes last
append_faq(self, faq_chunk) ==
    IF faq_chunk = <<>> THEN self
    ELSE [self EXCEPT !.big_chunks = Append(@, BigChunk(self.chunk_index, faq_chunk[1].content_name,
                                                        faq_chunk[1].small_chunks)),
                      !.chunk_index = @ + 1]

\* line 45
without_widgets(self) == [self EXCEPT !.soup = remove_casino_widgets(@)]

\* lines 48-62: the walk of the main wrapper, or of the body
casino_walk(self) ==
    extract_with_direct_chunking(self, Or(main_wrapper_of(self.soup), body_of(self.soup)))

\* lines 45-68: what follows the extraction of the FAQ
casino_after_faq(faq) == append_faq(casino_walk(without_widgets(faq.self)), faq.faq_chunk)

\* lines 36-68: the surgical extraction
extract_casino(self) == casino_after_faq(extract_faq_chunk(extract_metadata_chunk(self)))

\* lines 313-316: _create_final_json; json.dumps of the document is the
\* document under the tag "json"
PlaceholderChunk == BigChunk(1, <<"E","m","p","t","y">>, <<<<"N","o"," ","c","o","n","t","e","n","t"," ","f","o","u","n","d">>>>)

\* the document with no placeholder put in
create_final_json_bare(big_chunks) == [json |-> [big_chunks |-> big_chunks]]

create_final_json(big_chunks) ==
    [json |-> [big_chunks |-> IF big_chunks = <<>> THEN <<PlaceholderChunk>> ELSE big_chunks]]

\* the extractor after lines 29-34
NewExtractor(soup) ==
    [soup |-> preprocess_soup(soup), big_chunks |-> <<>>, chunk_index |-> 1, processed_elements |-> {}]

(***************************************************************************)
(* core/google_doc_extractor.py: GoogleDocExtractor                        *)
(***************************************************************************)
\* lines 66-74: _remove_noise
remove_empty_paragraphs(soup) ==
    decompose_all(soup, find_where(soup, 0,
        LAMBDA node : node.name = "p" /\ get_text_strip(soup, node.id) = <<>>))

remove_noise(soup) ==
    remove_empty_paragraphs(decompose_all(soup, find_all(soup, 0, {"script", "style", "meta", "title"})))

\* lines 20-26: metadata_keys, in the order the two loops of lines 96-97
\* go over them; line 119 makes the label of the key; line 106 names the
\* short keywords
MetadataKey(meta_type, label, keyword, short) ==
    [meta_type |-> meta_type, label |-> label, keyword |-> keyword, short |-> short]

metadata_keys ==
    <<MetadataKey("h1", <<"H","1">>, <<"h","1",":">>, FALSE), MetadataKey("h1", <<"H","1">>, <<"h","1">>, FALSE),
      MetadataKey("subtitle", <<"S","U","B","T","I","T","L","E">>, <<"s","u","b","t","i","t","l","e",":">>, FALSE),
      MetadataKey("subtitle", <<"S","U","B","T","I","T","L","E">>, <<"s","u","b","-","t","i","t","l","e",":">>, FALSE),
      MetadataKey("subtitle", <<"S","U","B","T","I","T","L","E">>, <<"s","u","b","t","i","t","l","e">>, FALSE),
      MetadataKey("lead", <<"L","E","A","D">>, <<"l","e","a","d",":">>, FALSE), MetadataKey("lead", <<"L","E","A","D">>, <<"l","e","a","d"," ","t","e","x","t",":">>, FALSE),
      MetadataKey("lead", <<"L","E","A","D">>, <<"l","e","a","d">>, FALSE),
      MetadataKey("meta_title", <<"M","E","T","A"," ","T","I","T","L","E">>, <<"m","t">>, TRUE),
      MetadataKey("meta_title", <<"M","E","T","A"," ","T","I","T","L","E">>, <<"m","e","t","a"," ","t","i","t","l","e">>, FALSE),
      MetadataKey("meta_title", <<"M","E","T","A"," ","T","I","T","L","E">>, <<"m","e","t","a","_","t","i","t","l","e">>, FALSE),
      MetadataKey("meta_desc", <<"M","E","T","A"," ","D","E","S","C">>, <<"m","d">>, TRUE),
      MetadataKey("meta_desc", <<"M","E","T","A"," ","D","E","S","C">>, <<"m","e","t","a"," ","d","e","s","c","r","i","p","t","i","o","n">>, FALSE),
      MetadataKey("meta_desc", <<"M","E","T","A"," ","D","E","S","C">>, <<"m","e","t","a","_","d","e","s","c">>, FALSE)>>

RECURSIVE SkipColonsAndSpaces(_)
\* the [:\s]* of the pattern of line 100
SkipColonsAndSpaces(s) ==
    IF s # <<>> /\ (Head(s) = ":" \/ IsSpace(Head(s))) THEN SkipColonsAndSpaces(Tail(s)) ELSE s

\* lines 100-101 and 110: the keyword at the start of the text, whatever its
\* case, and the stripped rest as the value
keyword_matches(keyword, text) == StartsWith(keyword, Lower(text))

keyword_value(keyword, text) ==
    Strip(SkipColonsAndSpaces(SubSeq(text, Len(keyword) + 1, Len(text))))

ShortKeyPrefix == 4
ShortKeyTextLength == 300

\* lines 106-108: a short keyword counts with a colon or a line break next to
\* it, or in a text that is not long
short_key_allowed(text) ==
    \/ \E k \in 1..Min({ShortKeyPrefix, Len(text)}) : text[k] \in {":", "\n"}
    \/ Len(text) < ShortKeyTextLength

\* lines 96-115: the keys that match the text with a value
matching_keys(text) ==
    {k \in 1..Len(metadata_keys) :
        /\ keyword_matches(metadata_keys[k].keyword, text)
        /\ metadata_keys[k].short => short_key_allowed(text)
        /\ keyword_value(metadata_keys[k].keyword, text) # <<>>}

\* lines 117-122: a key seen for the first time is kept and its tag destroyed
hunt_match(h, elem, text, key) ==
    IF key.meta_type \in h.found_metadata THEN h
    ELSE [soup |-> decompose(h.soup, elem),
          found_metadata |-> h.found_metadata \cup {key.meta_type},
          metadata_chunk_items |->
              Append(h.metadata_chunk_items, key.label \o <<":"," ">> \o keyword_value(key.keyword, text))]

hunt_keys(h, elem, text, keys) ==
    IF keys = {} THEN h ELSE hunt_match(h, elem, text, metadata_keys[Min(keys)])

\* lines 87-122: one tag of the hunt
hunt_tag(h, elem, text) == IF text = <<>> THEN h ELSE hunt_keys(h, elem, text, matching_keys(text))

RECURSIVE hunt_loop(_, _)
\* a tag destroyed together with an earlier one has no text left
hunt_loop(h, all_tags) ==
    IF all_tags = <<>> THEN h
    ELSE hunt_loop(hunt_tag(h, Head(all_tags),
                            IF InSoup(h.soup, Head(all_tags)) THEN clean_text(get_text(h.soup, Head(all_tags)))
                            ELSE <<>>),
                   Tail(all_tags))

\* lines 125-130: without an H1 key, the first h1 tag goes to the front
hunt_first_h1(h, h1_tag) ==
    IF "h1" \in h.found_metadata \/ h1_tag = 0 THEN h
    ELSE [h EXCEPT !.soup = decompose(h.soup, h1_tag),
                   !.metadata_chunk_items = <<<<"H","1",":"," ">> \o clean_text(get_text(h.soup, h1_tag))>> \o @]

\* lines 125-130
hunt_h1(h) == hunt_first_h1(h, First(find_all(h.soup, 0, {"h1"})))

hunted(soup) ==
    hunt_h1(hunt_loop([soup |-> soup, found_metadata |-> {}, metadata_chunk_items |-> <<>>],
                      find_all(soup, 0, {"p", "li", "td", "h1", "h2", "h3"})))

\* lines 133-139: the chunk is appended when there are items
append_hunted(self, h) ==
    IF h.metadata_chunk_items = <<>> THEN [self EXCEPT !.soup = h.soup]
    ELSE [self EXCEPT !.soup = h.soup,
                      !.big_chunks = Append(@, BigChunk(self.chunk_index, <<"M","e","t","a","d","a","t","a"," ","&"," ","S","u","m","m","a","r","y">>,
                                                        h.metadata_chunk_items)),
                      !.chunk_index = @ + 1]

\* lines 76-139: _hunt_for_metadata
hunt_for_metadata(self) == append_hunted(self, hunted(self.soup))

\* two texts with a space between them
Spaced(first, rest) == IF rest = <<>> THEN first ELSE first \o <<" ">> \o rest

RECURSIVE SpacedTextOf(_)
SpacedTextOf(nodes) ==
    IF nodes = <<>> THEN <<>>
    ELSE IF Strip(Head(nodes).text) = <<>> THEN SpacedTextOf(Tail(nodes))
    ELSE Spaced(Strip(Head(nodes).text), SpacedTextOf(Tail(nodes)))

\* line 144: soup.get_text(" ", strip=True)
full_text_of(soup) == SpacedTextOf(soup)

RECURSIVE Sentences(_)
SentencesAt(text, stops) ==
    IF stops = {} THEN <<>>
    ELSE <<SubSeq(text, 1, Min(stops))>> \o Sentences(SubSeq(text, Min(stops) + 1, Len(text)))

\* the stretches of a text that end with a full stop, the full stop included
Sentences(text) == SentencesAt(text, {k \in 1..Len(text) : text[k] = "."})

MatchesPerKeyword == 2

\* matches[:2], each under the label
context_lines(label, matches) ==
    [k \in 1..Min({MatchesPerKeyword, Len(matches)}) |-> label \o clean_text(matches[k])]

\* lines 149-150 and 155-156: re.findall(r'([^.]*?kw[^.]*\.)', ..., re.IGNORECASE)[:2],
\* the first two sentences that have the keyword, under the label
context_of(label, kw, full_text) ==
    context_lines(label, SelectSeq(Sentences(full_text), LAMBDA m : Contains(Lower(kw), Lower(m))))

lic_keywords == <<<<"U","K","G","C">>, <<"M","G","A","/">>, <<"C","u","r","a","c","a","o">>, <<"L","i","c","e","n","s","e">>, <<"R","e","g","u","l","a","t","e","d"," ","b","y">>>>
res_keywords == <<<<"n","o","t"," ","a","v","a","i","l","a","b","l","e"," ","i","n">>, <<"r","e","s","t","r","i","c","t","e","d"," ","c","o","u","n","t","r">>, <<"p","l","a","y","e","r","s"," ","f","r","o","m">>>>

RECURSIVE context_of_all(_, _, _)
context_of_all(label, keywords, full_text) ==
    IF keywords = <<>> THEN <<>>
    ELSE context_of(label, Head(keywords), full_text) \o context_of_all(label, Tail(keywords), full_text)

\* lines 159-160
safety_context(full_text) ==
    IF Contains(<<WarningSign>>, full_text) \/ Contains(<<"1","8","+">>, full_text)
    THEN <<<<"S","A","F","E","T","Y","_","C","T","X",":"," ","R","i","s","k"," ","W","a","r","n","i","n","g","s"," ","f","o","u","n","d"," ","i","n"," ","d","o","c","u","m","e","n","t",".">>>>
    ELSE <<>>

\* lines 143-160: context_items
context_items_of(full_text) ==
    context_of_all(<<"L","I","C","E","N","S","E","_","C","T","X",":"," ">>, lic_keywords, full_text)
        \o context_of_all(<<"R","E","S","T","R","I","C","T","I","O","N","_","C","T","X",":"," ">>, res_keywords, full_text)
        \o safety_context(full_text)

BackpackIndex == 0

\* lines 141-167: _extract_global_backpack
extract_global_backpack(self, context_items, hash_seed) ==
    IF context_items = <<>> THEN self
    ELSE [self EXCEPT !.big_chunks = Append(@, BigChunk(BackpackIndex, <<"G","L","O","B","A","L"," ","C","O","N","T","E","X","T">>,
                                                        list_of_set(context_items, hash_seed)))]

\* lines 183-187: a bold paragraph
has_style(node, style) == Contains(style, node.style)

is_bold(soup, p) ==
    \/ find_all(soup, p, {"b", "strong"}) # <<>>
    \/ has_style(NodeOf(soup, p), <<"f","o","n","t","-","w","e","i","g","h","t",":","7","0","0">>)
    \/ has_style(NodeOf(soup, p), <<"f","o","n","t","-","w","e","i","g","h","t",":"," ","b","o","l","d">>)
    \/ find_where(soup, p, LAMBDA node : node.name = "span" /\ has_style(node, <<"f","o","n","t","-","w","e","i","g","h","t",":","7","0","0">>)) # <<>>

HeaderTextLength == 80

\* lines 177-190: a short bold paragraph that does not end a sentence is a header
is_visual_header(soup, p, text) ==
    /\ text # <<>>
    /\ Len(text) <= HeaderTextLength
    /\ is_bold(soup, p)
    /\ text[Len(text)] \notin {".", "!", "?"}

\* lines 176-190: p.name = 'h2'
upgrade_headers(soup) ==
    [k \in 1..Len(soup) |->
        IF soup[k].name = "p" /\ is_visual_header(soup, soup[k].id, clean_text(get_text(soup, soup[k].id)))
        THEN [soup[k] EXCEPT !.name = "h2"]
        ELSE soup[k]]

\* lines 195-199: the rows of a table, the empty cells and rows left out
NonEmpty(items) == SelectSeq(items, LAMBDA item : item # <<>>)

\* the cleaned texts of the elements
clean_texts(soup, ids) == [k \in 1..Len(ids) |-> clean_text(get_text(soup, ids[k]))]

row_cells(soup, tr) == NonEmpty(clean_texts(soup, find_all(soup, tr, {"td"})))

joined_rows(soup, trs) == [k \in 1..Len(trs) |-> Join(row_cells(soup, trs[k]), <<" ","|"," ">>)]

rows_text_of(soup, table) == NonEmpty(joined_rows(soup, find_all(soup, table, {"tr"})))

table_replaced_at(soup, table, rows_text, at, below) ==
    SubSeq(soup, 1, at - 1)
        \o <<Element(table, soup[at].parent, "p", <<>>, <<>>),
             NavigableString(soup[at + 1].id, table, <<"T","A","B","L","E","_","D","A","T","A",":"," ">> \o Join(rows_text, <<" ","/","/"," ">>))>>
        \o SelectSeq(SubSeq(soup, at + 1, Len(soup)), LAMBDA node : node.id \notin below)

\* lines 202-207: a p with the flattened text takes the place of the table
\* (it takes the ids of the table and of its first row), or the table goes
replace_table(soup, table, rows_text) ==
    IF rows_text = <<>> THEN decompose(soup, table)
    ELSE table_replaced_at(soup, table, rows_text, CHOOSE k \in 1..Len(soup) : soup[k].id = table,
                           SubtreeIds(soup, table))

RECURSIVE flatten_tables(_, _)
\* a table inside a table that was replaced is no longer in the soup
flatten_tables(soup, tables) ==
    IF tables = <<>> THEN soup
    ELSE IF ~InSoup(soup, Head(tables)) THEN flatten_tables(soup, Tail(tables))
    ELSE flatten_tables(replace_table(soup, Head(tables), rows_text_of(soup, Head(tables))), Tail(tables))

\* lines 193-207
flatten_all_tables(soup) == flatten_tables(soup, find_all(soup, 0, {"table"}))

\* lines 169-207: _normalize_structure
normalize_structure(soup) == flatten_all_tables(upgrade_headers(soup))

RECURSIVE Split(_, _)
SplitAt(s, sep, at) ==
    IF at = {} THEN <<s>>
    ELSE <<SubSeq(s, 1, Min(at) - 1)>> \o Split(SubSeq(s, Min(at) + Len(sep), Len(s)), sep)

\* str.split(sep)
Split(s, sep) == SplitAt(s, sep, {k \in 1..(Len(s) - Len(sep) + 1) : SubSeq(s, k, k + Len(sep) - 1) = sep})

FaqTitleLength == 50

\* lines 219-221: a short text with FAQ, KKK or FREQUENTLY ASKED in it,
\* whatever the case of its letters
is_faq_title(txt) ==
    /\ \/ Contains(Lower(<<"F","A","Q">>), Lower(txt))
       \/ Contains(Lower(<<"K","K","K">>), Lower(txt))
       \/ Contains(Lower(<<"F","R","E","Q","U","E","N","T","L","Y"," ","A","S","K","E","D">>), Lower(txt))
    /\ Len(txt) < FaqTitleLength

flexible_faq_header_among(soup, headers) ==
    FirstHit(headers, {k \in 1..Len(headers) : is_faq_title(clean_text(get_text(soup, headers[k])))})

\* lines 218-223: the header of the FAQ, None (0) without one
flexible_faq_header(soup) == flexible_faq_header_among(soup, find_all(soup, 0, {"h1", "h2", "h3", "p"}))

\* lines 236-242: the line of a sibling
raw_faq_line(txt) ==
    IF txt = <<>> THEN <<>>
    ELSE IF Contains(<<"?">>, txt) THEN <<"\n","Q",":"," ">> \o txt \o <<"\n">>
    ELSE <<"A",":"," ">> \o txt \o <<"\n">>

RECURSIVE raw_faq_text_of(_, _)
\* lines 231-244: the siblings after the header, up to the next h2
raw_faq_text_of(soup, current_element) ==
    IF current_element = 0 THEN <<>>
    ELSE IF ~IsTag(NodeOf(soup, current_element))
    THEN raw_faq_text_of(soup, next_sibling(soup, current_element))
    ELSE IF NodeOf(soup, current_element).name = "h2" THEN <<>>
    ELSE raw_faq_line(clean_text(get_text(soup, current_element)))
            \o raw_faq_text_of(soup, next_sibling(soup, current_element))

\* lines 252-256: the line of a pair
flexible_faq_item(parts) ==
    <<"F","A","Q","_","Q",":"," ">> \o Strip(parts[1]) \o <<" ","/","/"," ","F","A","Q","_","A",":"," ">>
        \o (IF Len(parts) > 1 THEN Strip(parts[2]) ELSE <<"A","n","s","w","e","r"," ","i","n"," ","c","o","n","t","e","x","t">>)

flexible_faq_pairs(pairs) == [k \in 1..Len(pairs) |-> flexible_faq_item(Split(pairs[k], <<"\n","A",":">>))]

\* lines 249-256: faq_items
flexible_faq_items(raw_faq_text) ==
    flexible_faq_pairs(SelectSeq(Split(raw_faq_text, <<"Q",":"," ">>), LAMBDA p : Strip(p) # <<>>))

\* lines 260-267: the header goes, and the items make the chunk
flexible_faq_result(self, header, faq_items) ==
    [self |-> [self EXCEPT !.soup = decompose(self.soup, header)],
     faq_chunk |-> IF faq_items = <<>> THEN <<>>
                   ELSE <<[content_name |-> <<"F","r","e","q","u","e","n","t","l","y"," ","A","s","k","e","d"," ","Q","u","e","s","t","i","o","n","s">>,
                           small_chunks |-> faq_items]>>]

\* lines 209-267: _extract_flexible_faq
extract_flexible_faq(self, header) ==
    IF header = 0 THEN [self |-> self, faq_chunk |-> <<>>]
    ELSE flexible_faq_result(self, header,
             flexible_faq_items(raw_faq_text_of(self.soup, next_sibling(self.soup, header))))

\* lines 284-291: the chunk collected so far is appended and the index moves on
linear_flush(c) ==
    IF c.current_chunk = <<>> THEN c
    ELSE [c EXCEPT !.big_chunks = Append(@, BigChunk(c.chunk_index, c.current_title, c.current_chunk)),
                   !.chunk_index = @ + 1,
                   !.current_chunk = <<>>]

\* lines 309-314: the last chunk is appended, and the index stays
linear_final_flush(c) ==
    IF c.current_chunk = <<>> THEN c
    ELSE [c EXCEPT !.big_chunks = Append(@, BigChunk(c.chunk_index, c.current_title, c.current_chunk))]

\* line 297
list_items(soup, lis) == [k \in 1..Len(lis) |-> clean_text(get_text(soup, lis[k]))]

\* lines 279-306: one element of the scan
linear_element(soup, c, elem, name, text) ==
    IF text = <<>> THEN c
    ELSE IF name \in {"h2", "h3"}
    THEN [linear_flush(c) EXCEPT !.current_title = text,
                                 !.current_chunk = Append(@, <<"H","E","A","D","E","R",":"," ">> \o text)]
    ELSE IF name \in {"ul", "ol"}
    THEN [c EXCEPT !.current_chunk =
              Append(@, <<"L","I","S","T",":"," ">> \o Join(list_items(soup, find_all(soup, elem, {"li"})), <<" ","/","/"," ">>))]
    ELSE IF Contains(<<WarningSign>>, text)
    THEN [c EXCEPT !.current_chunk = Append(@, <<"W","A","R","N","I","N","G",":"," ">> \o text)]
    ELSE [c EXCEPT !.current_chunk = Append(@, <<"C","O","N","T","E","N","T",":"," ">> \o text)]

RECURSIVE linear_loop(_, _, _)
linear_loop(soup, c, elems) ==
    IF elems = <<>> THEN c
    ELSE linear_loop(soup,
                     linear_element(soup, c, Head(elems), NodeOf(soup, Head(elems)).name,
                                    clean_text(get_text(soup, Head(elems)))),
                     Tail(elems))

\* line 278: find_all(names, recursive=False), the children of the root only
find_children(soup, root, names) ==
    Ids(SelectSeq(soup, LAMBDA node : node.name \in names /\ node.parent = root))

linear_chunked(self, c) == [self EXCEPT !.big_chunks = c.big_chunks, !.chunk_index = c.chunk_index]

\* lines 269-314: _chunk_linear_content
chunk_linear_content(self) ==
    linear_chunked(self, linear_final_flush(linear_loop(self.soup,
                             [current_chunk |-> <<>>, current_title |-> <<"M","a","i","n"," ","C","o","n","t","e","n","t">>,
                              big_chunks |-> self.big_chunks, chunk_index |-> self.chunk_index],
                             find_children(self.soup, body_of(self.soup), {"p", "h2", "h3", "ul", "ol"}))))

\* the extractor after lines 17-18 and 33-34
NewDocExtractor(soup) ==
    [soup |-> remove_noise(soup), big_chunks |-> <<>>, chunk_index |-> 1, processed_elements |-> {}]

\* line 42
doc_backpack(self, hash_seed) ==
    extract_global_backpack(self, context_items_of(full_text_of(self.soup)), hash_seed)

\* line 46
doc_normalized(self) == [self EXCEPT !.soup = normalize_structure(@)]

\* line 50
doc_faq(self) == extract_flexible_faq(self, flexible_faq_header(self.soup))

\* lines 53-59
doc_content(faq) == append_faq(chunk_linear_content(faq.self), faq.faq_chunk)

\* lines 33-59 of GoogleDocExtractor.extract_content: the steps in their order
google_doc_chunks(soup, hash_seed) ==
    doc_content(doc_faq(doc_normalized(doc_backpack(hunt_for_metadata(NewDocExtractor(soup)),
                                                    hash_seed)))).big_chunks

\* a returned (success, json, error) triple; None is the empty sequence
ExtractionSuccess(json) == [raised |-> FALSE, success |-> TRUE, json |-> <<json>>, error |-> <<>>]
ExtractionFailure(error) == [raised |-> FALSE, success |-> FALSE, json |-> <<>>, error |-> <<error>>]
\* an exception that leaves the function
ExtractionRaised(exception) == [raised |-> TRUE, success |-> FALSE, json |-> <<>>, error |-> exception]

\* lines 30-64 of google_doc_extractor.py: GoogleDocExtractor.extract_content
google_extract_content(html_content, hash_seed) ==
    IF html_content.raises # NoException
    THEN ExtractionFailure(<<"G","o","o","g","l","e"," ","D","o","c"," ","p","a","r","s","i","n","g"," ","e","r","r","o","r",":"," ">> \o html_content.raises[1])
    ELSE ExtractionSuccess(create_final_json(google_doc_chunks(html_content.soup, hash_seed)))

\* lines 321-323
extract_google_doc_content(html_content, hash_seed) == google_extract_content(html_content, hash_seed)

\* lines 72-73: the generic extraction
extract_generic(self) == extract_with_direct_chunking(self, body_of(self.soup))

\* lines 36-73 of html_extractor.py: the chunks of either mode
html_chunks(soup, casino_mode) ==
    IF casino_mode THEN extract_casino(NewExtractor(soup)).big_chunks
    ELSE extract_generic(NewExtractor(soup)).big_chunks

\* extract_content with no try around its body
extract_content_uncaught(html_content, casino_mode) ==
    IF html_content.raises # NoException THEN ExtractionRaised(html_content.raises)
    ELSE ExtractionSuccess(create_final_json(html_chunks(html_content.soup, casino_mode)))

\* lines 24-78 of html_extractor.py: HTMLContentExtractor.extract_content
extract_content(html_content, casino_mode) ==
    IF html_content.raises # NoException
    THEN ExtractionFailure(<<"H","T","M","L"," ","p","a","r","s","i","n","g"," ","e","r","r","o","r",":"," ">> \o html_content.raises[1])
    ELSE ExtractionSuccess(create_final_json(html_chunks(html_content.soup, casino_mode)))

\* line 320: the marks of a Google Doc export in the text of the page
is_google_doc(html) ==
    \/ "doc-content" \in html.markers
    \/ "google.com/url" \in html.markers
    \/ {"<style type=\"text/css\">", ".c1{"} \subseteq html.markers

\* lines 318-325: extract_html_content
extract_html_content(html, casino_mode, hash_seed) ==
    IF is_google_doc(html) THEN extract_google_doc_content(html, hash_seed)
    ELSE extract_content(html, casino_mode)

\* core/extractor.py lines 22-23: what requests.get and raise_for_status give
Fetched(html, too_large) == [kind |-> "response", html |-> html, too_large |-> too_large, message |-> <<>>]
FetchRaised(kind, message) == [kind |-> kind, html |-> <<>>, too_large |-> FALSE, message |-> message]

\* lines 29-38: an exception out of extract_html_content would be caught too
extract_fetched(extracted) ==
    IF extracted.raised THEN ExtractionFailure(<<"U","n","e","x","p","e","c","t","e","d"," ","e","r","r","o","r",":"," ">> \o extracted.error[1])
    ELSE extracted

\* core/extractor.py lines 16-38: extract_url_content
extract_url_content(fetched, hash_seed) ==
    IF fetched.kind = "Timeout" THEN ExtractionFailure(<<"R","e","q","u","e","s","t"," ","t","i","m","e","d"," ","o","u","t">>)
    ELSE IF fetched.kind = "RequestException"
    THEN ExtractionFailure(<<"C","o","n","n","e","c","t","i","o","n"," ","e","r","r","o","r",":"," ">> \o fetched.message)
    ELSE IF fetched.kind = "Exception"
    THEN ExtractionFailure(<<"U","n","e","x","p","e","c","t","e","d"," ","e","r","r","o","r",":"," ">> \o fetched.message)
    ELSE IF fetched.too_large THEN ExtractionFailure(<<"C","o","n","t","e","n","t"," ","t","o","o"," ","l","a","r","g","e"," ","(",">","5","M","B",")">>)
    ELSE extract_fetched(extract_html_content(fetched.html, FALSE, hash_seed))

(***************************************************************************)
(* SpecExtract: the two entry points of the extraction applied to a page   *)
(***************************************************************************)
\* an element with one string in it
Leaf(id, parent, name, class, data_qa, text) ==
    <<Element(id, parent, name, class, data_qa), NavigableString(id + 1, id, text)>>

\* a piece of a page put after the nodes that are already there
Place(block, offset) ==
    [k \in 1..Len(block) |->
        [block[k] EXCEPT !.id = @ + offset, !.parent = IF @ = 0 THEN 0 ELSE @ + offset]]

PlacedAfter(front, block) == front \o Place(block, Len(front))

RECURSIVE PageOf(_)
PageOf(blocks) ==
    IF blocks = <<>> THEN <<>>
    ELSE PlacedAfter(PageOf(SubSeq(blocks, 1, Len(blocks) - 1)), blocks[Len(blocks)])

\* pieces of an HTML page
H1Block == Leaf(1, 0, "h1", <<>>, <<>>, <<"A","c","m","e">>)
SubTitleBlock == Leaf(1, 0, "span", <<"s","u","b","-","t","i","t","l","e">>, <<>>, <<"B","e","s","t">>)
LeadBlock == Leaf(1, 0, "p", <<"l","e","a","d">>, <<>>, <<"C","o","m","e">>)
\* an intro container without the h1
IntroBlock ==
    <<Element(1, 0, "div", <<>>, <<"t","e","m","p","l","a","t","e","I","n","t","r","o","C","a","s","i","n","o","R","e","v","i","e","w","P","a","g","e">>)>>
        \o Leaf(2, 1, "span", <<"s","u","b","-","t","i","t","l","e">>, <<>>, <<"B","e","s","t">>) \o Leaf(4, 1, "p", <<"l","e","a","d">>, <<>>, <<"C","o","m","e">>)
\* an intro container with the three of them
FullIntroBlock ==
    <<Element(1, 0, "div", <<>>, <<"t","e","m","p","l","a","t","e","I","n","t","r","o">>)>> \o Leaf(2, 1, "h1", <<>>, <<>>, <<"A","c","m","e">>)
        \o Leaf(4, 1, "span", <<"s","u","b","t","i","t","l","e">>, <<>>, <<"B","e","s","t">>) \o Leaf(6, 1, "p", <<"i","n","t","r","o">>, <<>>, <<"C","o","m","e">>)
H2Block == Leaf(1, 0, "h2", <<>>, <<>>, <<"S">>)
ParagraphBlock == Leaf(1, 0, "p", <<>>, <<>>, <<" ","x"," "," ","y"," ">>)
BlankBlock == <<NavigableString(1, 0, <<" ","\n">>)>>
FaqHeaderBlock == Leaf(1, 0, "h2", <<>>, <<>>, <<"F","A","Q">>)
QuestionListBlock ==
    <<Element(1, 0, "ul", <<>>, <<>>)>> \o Leaf(2, 1, "li", <<>>, <<>>, <<"Q"," ","o","n","e","?">>)
        \o Leaf(4, 1, "li", <<>>, <<>>, <<"Q"," ","t","w","o","?">>)
AnswerOneBlock == Leaf(1, 0, "p", <<>>, <<>>, <<"A"," ","o","n","e">>)
AnswerTwoBlock == Leaf(1, 0, "p", <<>>, <<>>, <<"A"," ","t","w","o">>)
\* questions as headings, each with its answer after it, in one element
QuestionsAndAnswers(name, data_qa) ==
    <<Element(1, 0, name, <<>>, data_qa)>> \o Leaf(2, 1, "h3", <<>>, <<>>, <<"Q"," ","o","n","e","?">>)
        \o Leaf(4, 1, "p", <<>>, <<>>, <<"A"," ","o","n","e">>) \o Leaf(6, 1, "h3", <<>>, <<>>, <<"Q"," ","t","w","o","?">>)
        \o Leaf(8, 1, "p", <<>>, <<>>, <<"A"," ","t","w","o">>)
FaqRegionBlock == QuestionsAndAnswers("div", <<"t","e","m","p","l","a","t","e","F","A","Q">>)
FaqWrappedBlock == QuestionsAndAnswers("div", <<>>)
NavBlock == <<Element(1, 0, "nav", <<>>, <<>>)>> \o Leaf(2, 1, "p", <<>>, <<>>, <<"n">>)
WidgetBlock == <<Element(1, 0, "div", <<"w","i","d","g","e","t","-","t","o","p">>, <<>>)>> \o Leaf(2, 1, "p", <<>>, <<>>, <<"w">>)
TableBlock ==
    <<Element(1, 0, "table", <<>>, <<>>), Element(2, 1, "tr", <<>>, <<>>)>>
        \o Leaf(3, 2, "td", <<>>, <<>>, <<"c">>)
WrapperBlock == <<Element(1, 0, "section", <<"w","r","a","p","p","e","r">>, <<>>)>> \o Leaf(2, 1, "p", <<>>, <<>>, <<"m">>)
WarningBlock == Leaf(1, 0, "p", <<"w","a","r","n","i","n","g","-","b","o","x">>, <<>>, <<"z">>)
\* the h1 of the page inside a header element
HeaderBlock == <<Element(1, 0, "header", <<>>, <<>>)>> \o Leaf(2, 1, "h1", <<>>, <<>>, <<"A","c","m","e">>)
\* a heading with the title that the walk starts with
MainContentBlock == Leaf(1, 0, "h2", <<>>, <<>>, <<"M","a","i","n"," ","C","o","n","t","e","n","t">>)

HtmlBlocks ==
    {H1Block, SubTitleBlock, LeadBlock, IntroBlock, H2Block, ParagraphBlock, BlankBlock,
     FaqHeaderBlock, FaqRegionBlock, NavBlock, WidgetBlock, TableBlock, WrapperBlock, WarningBlock}

\* pieces of a Google Doc export
StyledLeaf(style, text) ==
    <<[Element(1, 0, "p", <<>>, <<>>) EXCEPT !.style = style], NavigableString(2, 1, text)>>
DocH1KeyBlock == Leaf(1, 0, "p", <<>>, <<>>, <<"H","1",":"," ","A">>)
DocLeadKeyBlock == Leaf(1, 0, "p", <<>>, <<>>, <<"L","e","a","d"," ","t","e","x","t",":"," ","C">>)
DocLicenseBlock == Leaf(1, 0, "p", <<>>, <<>>, <<"L","i","c","e","n","s","e","d"," ","b","y"," ","U","K","G","C",".">>)
DocAdultBlock == Leaf(1, 0, "p", <<>>, <<>>, <<"1","8","+">>)
DocTitleBlock == StyledLeaf(<<"f","o","n","t","-","w","e","i","g","h","t",":","7","0","0">>, <<"T","i","t","l","e">>)
DocParagraphBlock == Leaf(1, 0, "p", <<>>, <<>>, <<"t","e","x","t",".">>)
DocFaqTitleBlock == Leaf(1, 0, "p", <<>>, <<>>, <<"F","A","Q">>)
DocQuestionBlock == Leaf(1, 0, "p", <<>>, <<>>, <<"W","h","y","?">>)
DocAnswerBlock == Leaf(1, 0, "p", <<>>, <<>>, <<"B","e","c","a","u","s","e">>)
DocListBlock == <<Element(1, 0, "ul", <<>>, <<>>)>> \o Leaf(2, 1, "li", <<>>, <<>>, <<"i">>)

DocBlocks ==
    {DocH1KeyBlock, DocLeadKeyBlock, DocLicenseBlock, DocAdultBlock, DocTitleBlock, DocParagraphBlock,
     DocFaqTitleBlock, DocQuestionBlock, DocAnswerBlock, DocListBlock, H1Block, TableBlock, BlankBlock}

RECURSIVE BlockListsUpTo(_, _)
BlockListsUpTo(blocks, n) ==
    IF n = 0 THEN {<<>>}
    ELSE BlockListsUpTo(blocks, n - 1)
            \cup {Append(list, b) : list \in BlockListsUpTo(blocks, n - 1), b \in blocks}

\* pages of more pieces: the H1, sub-title and lead in a row; the H1 before
\* the intro container; the FAQ heading before the list of questions and the
\* answers, before the questions each with its answer, and before one
\* element with them all; the H1 in a header element; a section with the
\* title 'Main Content' among other sections
LongerPages ==
    {<<H1Block, SubTitleBlock, LeadBlock, ParagraphBlock>>,
     <<H1Block, IntroBlock, H2Block, ParagraphBlock>>,
     <<FullIntroBlock, ParagraphBlock>>,
     <<ParagraphBlock, FaqHeaderBlock, QuestionListBlock, AnswerOneBlock, AnswerTwoBlock>>,
     <<FaqHeaderBlock, Leaf(1, 0, "li", <<>>, <<>>, <<"Q"," ","o","n","e","?">>), AnswerOneBlock,
       Leaf(1, 0, "li", <<>>, <<>>, <<"Q"," ","t","w","o","?">>), AnswerTwoBlock>>,
     <<ParagraphBlock, FaqHeaderBlock, FaqWrappedBlock, H2Block, ParagraphBlock>>,
     <<HeaderBlock, LeadBlock, ParagraphBlock>>,
     <<ParagraphBlock, H2Block, AnswerOneBlock, H2Block, AnswerTwoBlock>>,
     <<ParagraphBlock, MainContentBlock, AnswerOneBlock, H2Block, AnswerTwoBlock>>}

LongerDocs ==
    {<<DocH1KeyBlock, DocLicenseBlock, DocAdultBlock, DocParagraphBlock>>,
     <<DocParagraphBlock, DocFaqTitleBlock, DocQuestionBlock, DocAnswerBlock>>,
     <<DocTitleBlock, DocParagraphBlock, DocTitleBlock, DocParagraphBlock>>}

RecursionError == <<<<"m","a","x","i","m","u","m"," ","r","e","c","u","r","s","i","o","n"," ","d","e","p","t","h"," ","e","x","c","e","e","d","e","d">>>>

DocMarkers == {{"doc-content"}, {"google.com/url"}, {"<style type=\"text/css\">", ".c1{"}}

HtmlInputs ==
    {Html(PageOf(blocks), {}, NoException) : blocks \in BlockListsUpTo(HtmlBlocks, MaxBlocks) \cup LongerPages}
    \cup {Html(PageOf(blocks), {"doc-content"}, NoException) :
            blocks \in BlockListsUpTo(DocBlocks, MaxBlocks) \cup LongerDocs}
    \cup {Html(PageOf(blocks), markers, NoException) : blocks \in LongerDocs, markers \in DocMarkers}
    \cup {Html(PageOf(blocks), {"<style type=\"text/css\">"}, NoException) : blocks \in LongerPages}
    \cup {Html(PageOf(blocks), markers, RecursionError) :
            blocks \in LongerPages, markers \in {{}, {"doc-content"}}}

\* what the request of extract_url_content can come to
Fetches(html) ==
    {Fetched(html, FALSE), Fetched(html, TRUE), FetchRaised("Timeout", <<>>),
     FetchRaised("RequestException", <<"4","0","4"," ","C","l","i","e","n","t"," ","E","r","r","o","r">>), FetchRaised("Exception", <<"I","n","v","a","l","i","d"," ","U","R","L">>)}

ExtractInit ==
    /\ RunOff
    /\ fn_pc = "extract0"
    /\ fn_html \in HtmlInputs
    /\ fn_casino \in BOOLEAN
    /\ fn_extracted = NoExtraction
    /\ ParseOff
    /\ SanitizeOff
    /\ RestoreOff
    /\ MoreOff

ApplyExtractHtml ==
    /\ fn_pc = "extract0"
    /\ \E hash_seed \in HashSeeds : fn_extracted' = extract_html_content(fn_html, fn_casino, hash_seed)
    /\ fn_pc' = "extract_html"
    /\ UNCHANGED <<run_vars, parse_vars, sanitize_vars, restore_vars, fn_html, fn_casino, more_vars>>

ApplyExtractUrl ==
    /\ fn_pc = "extract0"
    /\ \E fetched \in Fetches(fn_html), hash_seed \in HashSeeds :
            fn_extracted' = extract_url_content(fetched, hash_seed)
    /\ fn_pc' = "extract_url"
    /\ UNCHANGED <<run_vars, parse_vars, sanitize_vars, restore_vars, fn_html, fn_casino, more_vars>>

ExtractNext == ApplyExtractHtml \/ ApplyExtractUrl

SpecExtract == ExtractInit /\ [][ExtractNext]_vars

(***************************************************************************)
(* Properties                                                              *)
(***************************************************************************)
\* the auditor calls that have been started and have not returned
InFlight == {i \in 1..audit_count : task[i] = "calling"}

FailedCalls == {i \in 1..audit_count : ~raw_results[i].success}

\* C1: at every moment of a run, whatever the ensemble size, at most
\* MAX_CONCURRENT_AUDITS auditor calls are started and not yet returned.
C1_InFlightWithinCap == Cardinality(InFlight) <= MAX_CONCURRENT_AUDITS

\* C1 witness: the cap is reached while another call of the ensemble waits.
C1_CapReachedWhileQueued ==
    /\ Cardinality(InFlight) = MAX_CONCURRENT_AUDITS
    /\ \E i \in 1..audit_count : task[i] = "queued"

\* C2 as claimed: the run returns success=false exactly when every one of
\* the N auditor calls failed; one call that returned a response, even one
\* reporting no violations, makes the run succeed.
C2_FailsIffEveryCallFailed ==
    result.status = "returned" =>
        (~result.success <=> FailedCalls = 1..audit_count)

\* C3 as claimed: when some but not all calls fail, the run succeeds, no
\* error is set, and every pooled finding comes from a call that succeeded.
C3_PartialFailureSucceeds ==
    (/\ pc = "done"
     /\ FailedCalls # {}
     /\ FailedCalls # 1..audit_count)
    => /\ result.status = "returned"
       /\ result.success
       /\ result.error = ""
       /\ \A k \in 1..Len(all_violations) :
             all_violations[k].source_audit_id.n \notin FailedCalls

\* C4: when the filter call fails, the deduplication step gives back the
\* sanitized list it was given, same records in the same order, not an
\* empty list and not an exception, and the run succeeds with that list.
C4_FilterFailureFallsBack ==
    (pc = "done" /\ dedup_calls > 0 /\ ~dedup_result.success)
    => /\ result.status = "returned"
       /\ result.success
       /\ clean_input_violations # <<>>
       /\ unique_violations = clean_input_violations
       /\ final_violations = clean_input_violations

\* C4 witness: a run ends after a failed filter call with two findings kept.
C4_FilterFailedRunDone ==
    /\ pc = "done"
    /\ dedup_calls > 0
    /\ ~dedup_result.success
    /\ Len(final_violations) >= 2

\* C5: when the sanitized pooled list is empty no call is made to the filter
\* agent, and the final list is that empty list.
C5_EmptyListSkipsFilter ==
    (successful_audits > 0 /\ clean_input_violations = <<>>)
    => /\ dedup_calls = 0
       /\ pc = "done"
       /\ result = ReturnedSuccess
       /\ unique_violations = <<>>
       /\ final_violations = <<>>

\* C5 witness: an ensemble whose findings were all sanitized away returns.
C5_AllFindingsSanitizedAway ==
    /\ pc = "done"
    /\ audit_count > 1
    /\ all_violations # <<>>
    /\ clean_input_violations = <<>>
    /\ result.success

\* the violation objects a Violation can be built from
Mappable == {v \in VDictTokens : map_one(VDict(v)).exc = ""}

\* C6 as claimed: the same violation object parses to the same one-element
\* list in each of the three reply shapes.
C6_ThreeShapesParseAlike ==
    fn_pc = "parse1" =>
        \A v \in Mappable :
            fn_text \in {ShapeA(v), ShapeB(v), ShapeC(v)}
            => fn_parsed = Returned(<<map_one(VDict(v)).val>>)

\* the JSON span found in a text, decoded as lines 32-43 decode it
DecodedSpan(text) ==
    IF json_loads(extract_json_structure(text).json).ok
    THEN json_loads(extract_json_structure(text).json)
    ELSE json_loads(heuristic_fix_json(extract_json_structure(text).json))

Unrecoverable(text) ==
    \/ ~extract_json_structure(text).found
    \/ ~DecodedSpan(text).ok
    \/ DecodedSpan(text).val.t # "list"
    \/ \A k \in 1..Len(DecodedSpan(text).val.items) :
          DecodedSpan(text).val.items[k].t # "dict"

\* C7 as claimed: parse_to_violations raises for no text; it returns the empty list
\* when no JSON span is found, when the span is invalid JSON even after the
\* one repair, and when the decoded value holds no object at all.
C7_ParserNeverRaises ==
    fn_pc = "parse1" =>
        /\ fn_parsed.exc = ""
        /\ Unrecoverable(fn_text) => fn_parsed.val = <<>>

\* C8 as claimed: a fenced block is used when there is one; otherwise the
\* span from the first opening bracket to the last closing one is, so an
\* array with prose before or after it is still extracted and parsed.
C8_ProseAroundJsonIsExtracted ==
    fn_pc = "parse1" =>
        \A v \in Mappable :
            fn_text \in {Fenced(ShapeB(v)), ProseFenced(ShapeB(v)), Bare(ShapeB(v)),
                         ProseBefore(ShapeB(v)), ProseAfter(ShapeB(v)),
                         ProseAround(ShapeB(v))}
            => fn_parsed = Returned(<<map_one(VDict(v)).val>>)

\* the records C9 says are dropped: the type, trimmed and case-folded, is
\* empty or is one of the blacklist phrases, or the text is empty or a
\* placeholder
ListedAsDropped(v) ==
    \/ v_type_of(v) = <<>>
    \/ \E k \in 1..Len(blacklist) : blacklist[k] = v_type_of(v)
    \/ ~Truthy(v.problematic_text)
    \/ Lower(v.problematic_text.s) \in text_placeholders

\* C9 as claimed: sanitize returns the input records in order, unmodified,
\* without exactly those whose type is empty or one of the blacklist phrases
\* or whose text is empty or a placeholder; a longer genuine type is kept.
C9_DropsExactlyListedRecords ==
    fn_pc \in {"san1", "san2"} =>
        fn_once = SelectSeq(fn_list, LAMBDA v : ~ListedAsDropped(v))

\* C10: sanitizing a sanitized list changes nothing.
C10_SanitizeIdempotent == fn_pc = "san2" => fn_twice = fn_once

\* C10 witness: the first pass dropped a record and kept another, and the
\* second pass has run.
C10_SanitizedTwice ==
    /\ fn_pc = "san2"
    /\ fn_once # fn_list
    /\ fn_once # <<>>

\* a record that is no finding: its text is empty or a placeholder, or its
\* type is empty or holds a "no issue" phrase
IsNoise(v) == sanitize_drops(v) \/ ListedAsDropped(v)

\* C11: in every successful run, whether the filter agent ran, was skipped
\* or failed, no record of the returned list and no entry of the rendered
\* report has an empty or placeholder text or a blacklisted type.
C11_NoNoiseInFinalListOrReport ==
    result = ReturnedSuccess =>
        /\ \A k \in 1..Len(final_violations) : ~IsNoise(final_violations[k])
        /\ Len(report.entries) = Len(final_violations)
        /\ \A k \in 1..Len(report.entries) : ~IsNoise(report.entries[k])

\* C11 witness: the filter agent's reply held a noise record next to a
\* finding; the run returned the finding alone.
C11_FilterNoiseRemoved ==
    /\ result = ReturnedSuccess
    /\ dedup_calls > 0
    /\ dedup_result.success
    /\ \E k \in 1..Len(unique_violations) : IsNoise(unique_violations[k])
    /\ final_violations # <<>>

\* the original records that have a translation and whose text has the
\* normalized key of v's text
SameKeyOriginals(v) ==
    {i \in 1..Len(fn_original) :
        /\ Truthy(fn_original[i].translation)
        /\ normalize_key(fn_original[i].problematic_text) = normalize_key(v.problematic_text)}

\* ... when that key is not empty: the primary matches of v
PrimaryMatches(v) ==
    {i \in SameKeyOriginals(v) : normalize_key(v.problematic_text) # <<>>}

\* the original records that have a translation and v's page and type
SecondaryMatches(v) ==
    {i \in 1..Len(fn_original) :
        /\ Truthy(fn_original[i].translation)
        /\ ToStr(fn_original[i].page_number) = ToStr(v.page_number)
        /\ ToStr(fn_original[i].violation_type) = ToStr(v.violation_type)}

\* r is v with the two translation fields of o
RestoredFrom(r, v, o) ==
    r = [v EXCEPT !.translation = o.translation,
                  !.rewrite_translation = o.rewrite_translation]

\* C12 as claimed: a filtered record without a translation gets the
\* translation and rewrite_translation of an original record whose text has
\* the same normalized key.
C12_RestoredFromSameKey ==
    fn_pc = "restore1" =>
        \A k \in 1..Len(fn_unique) :
            (~Truthy(fn_unique[k].translation) /\ SameKeyOriginals(fn_unique[k]) # {})
            => \E i \in SameKeyOriginals(fn_unique[k]) :
                  RestoredFrom(fn_restored[k], fn_unique[k], fn_original[i])

\* C12 amended: ... whose text has the same non-empty normalized key; the
\* key is the text lowercased, without punctuation and whitespace, cut to
\* KeyLength characters, so "Guaranteed 100% win!" and "Guaranteed 100% win"
\* have one key.
C12_RestoredFromSameNonEmptyKey ==
    /\ normalize_key(PyStr(<<"G","u","a","r","a","n","t","e","e","d"," ","1","0","0","%"," ","w","i","n","!">>))
          = <<"g","u","a","r","a","n","t","e","e","d","1","0","0","w","i","n">>
    /\ normalize_key(PyStr(<<"G","u","a","r","a","n","t","e","e","d"," ","1","0","0","%"," ","w","i","n">>))
          = <<"g","u","a","r","a","n","t","e","e","d","1","0","0","w","i","n">>
    /\ normalize_key(LongOriginal.problematic_text) = Repeat("a", KeyLength)
    /\ normalize_key(PyStr(<<"?","?","?">>)) = <<>>
    /\ fn_pc = "restore1" =>
          \A k \in 1..Len(fn_unique) :
              (~Truthy(fn_unique[k].translation) /\ PrimaryMatches(fn_unique[k]) # {})
              => \E i \in PrimaryMatches(fn_unique[k]) :
                    RestoredFrom(fn_restored[k], fn_unique[k], fn_original[i])

\* C12 witness: a filtered record whose text lost its punctuation, whose
\* page and type no original has, got its translation back.
C12_RestoredAcrossPunctuation ==
    /\ fn_pc = "restore1"
    /\ \E k \in 1..Len(fn_unique) :
          /\ ~Truthy(fn_unique[k].translation)
          /\ PrimaryMatches(fn_unique[k]) # {}
          /\ SecondaryMatches(fn_unique[k]) = {}
          /\ \A i \in PrimaryMatches(fn_unique[k]) :
                fn_original[i].problematic_text # fn_unique[k].problematic_text
          /\ Truthy(fn_restored[k].translation)

\* C13: a filtered record with a translation is returned unchanged; one
\* without gets the translation of a primary match when there is one, of a
\* secondary match only when there is no primary one, and is returned
\* unchanged when there is neither.
C13_PrimaryBeforeSecondary ==
    fn_pc = "restore1" =>
        /\ Len(fn_restored) = Len(fn_unique)
        /\ \A k \in 1..Len(fn_unique) :
              LET v == fn_unique[k]
                  r == fn_restored[k]
              IN IF Truthy(v.translation) THEN r = v
                 ELSE IF PrimaryMatches(v) # {}
                      THEN \E i \in PrimaryMatches(v) : RestoredFrom(r, v, fn_original[i])
                 ELSE IF SecondaryMatches(v) # {}
                      THEN \E i \in SecondaryMatches(v) : RestoredFrom(r, v, fn_original[i])
                 ELSE r = v

\* C13 witness: a record had a primary and a secondary match with different
\* translations and got the primary one.
C13_PrimaryWonOverSecondary ==
    /\ fn_pc = "restore1"
    /\ \E k \in 1..Len(fn_unique) :
          /\ ~Truthy(fn_unique[k].translation)
          /\ PrimaryMatches(fn_unique[k]) # {}
          /\ \E j \in SecondaryMatches(fn_unique[k]) :
                fn_original[j].translation # fn_restored[k].translation
          /\ \E i \in PrimaryMatches(fn_unique[k]) :
                fn_original[i].translation = fn_restored[k].translation

AllCallsReturned == \A i \in 1..audit_count : task[i] = "done"

\* C19: the filter agent is called only when all N auditor calls have
\* returned and all their findings have been pooled and sanitized; the
\* restoration works on the parsed filter reply and the sanitized pool; the
\* second sanitation works on the restored list and is the last stage.
C19_StagesInOrder ==
    /\ pc \in {"dedup", "done"} => AllCallsReturned
    /\ dedup_calls > 0 =>
          /\ AllCallsReturned
          /\ all_violations = pool(raw_results, 1).val
          /\ clean_input_violations = sanitize_violations(all_violations)
    /\ pc = "dedup" => final_violations = <<>> /\ unique_violations = <<>> /\ result = Running
    /\ (result = ReturnedSuccess /\ dedup_calls > 0 /\ dedup_result.success /\ dedup_result.text # <<>>)
          => /\ unique_violations = restore_translations(parse_to_violations(dedup_result.text).val,
                                                         clean_input_violations)
             /\ final_violations = sanitize_violations(unique_violations)
    /\ result = ReturnedSuccess =>
          /\ final_violations = sanitize_violations(unique_violations)
          /\ report = generate_markdown(final_violations, successful_audits)

\* C19 witness: an ensemble larger than the cap has returned whole, some
\* calls failed, and the filter call is out.
C19_FilterCalledAfterWholeEnsemble ==
    /\ pc = "dedup"
    /\ audit_count > MAX_CONCURRENT_AUDITS
    /\ FailedCalls # {}
    /\ Len(clean_input_violations) < Len(all_violations)

\* C20 as claimed: when the filter call returns a reply that parses to no
\* records while the sanitized input was not empty, the run returns the
\* sanitized input list.
C20_MalformedFilterReplyFallsBack ==
    (/\ pc = "done"
     /\ dedup_calls > 0
     /\ dedup_result.success
     /\ parse_to_violations(dedup_result.text) = Returned(<<>>))
    => /\ result = ReturnedSuccess
       /\ final_violations = clean_input_violations
       /\ final_violations # <<>>

(***************************************************************************)
(* Properties of the extraction                                            *)
(***************************************************************************)
\* an entry point of the extraction has returned
Extracted == fn_pc \in {"extract_html", "extract_url"}

\* the big_chunks of the returned document
Chunks == fn_extracted.json[1].json.big_chunks

\* the big_chunk_index values in list order
Indices == [k \in 1..Len(Chunks) |-> Chunks[k].big_chunk_index]

\* the page has no element, only strings of whitespace if anything
BlankPage == \A k \in 1..Len(fn_html.soup) : ~IsTag(fn_html.soup[k]) /\ Strip(fn_html.soup[k].text) = <<>>

IsPlaceholder(chunk) ==
    /\ chunk.big_chunk_index = 1
    /\ chunk.small_chunks = <<<<"N","o"," ","c","o","n","t","e","n","t"," ","f","o","u","n","d">>>>

\* C14: a successful extraction never returns an empty big_chunks list nor
\* a chunk without small_chunks, and when nothing is found (an empty or
\* whitespace-only page included) the document is exactly one placeholder
\* chunk that carries 'No content found'.
C14_NeverEmptyDocument ==
    (Extracted /\ fn_extracted.success) =>
        /\ Chunks # <<>>
        /\ \A k \in 1..Len(Chunks) : Chunks[k].small_chunks # <<>>
        /\ (\E k \in 1..Len(Chunks) : IsPlaceholder(Chunks[k]) \/ Chunks[k].content_name = <<"E","m","p","t","y">>)
              => Len(Chunks) = 1 /\ IsPlaceholder(Chunks[1])
        /\ BlankPage => Len(Chunks) = 1 /\ IsPlaceholder(Chunks[1])

\* C14 witness: a whitespace-only page was extracted with success.
C14_BlankPageGivesPlaceholder ==
    /\ fn_pc = "extract_html"
    /\ fn_html.soup = PageOf(<<BlankBlock>>)
    /\ fn_extracted.success
    /\ IsPlaceholder(Chunks[1])

\* C15 as claimed: the big_chunk_index values of the output, in list order,
\* are contiguous and strictly increasing; 0 is the index of a context
\* backpack only, which then comes first, and otherwise the first is 1.
C15_IndicesContiguousIncreasing ==
    (Extracted /\ fn_extracted.success) =>
        /\ \A k \in 1..(Len(Indices) - 1) : Indices[k + 1] = Indices[k] + 1
        /\ Indices[1] \in {0, 1}
        /\ \A k \in 1..Len(Chunks) :
              Chunks[k].content_name = <<"G","L","O","B","A","L"," ","C","O","N","T","E","X","T">> <=> (k = 1 /\ Indices[k] = 0)

\* a well-formed (success, json, error) triple
WellFormedTriple(extracted) ==
    \/ extracted.success /\ Len(extracted.json) = 1 /\ extracted.error = <<>>
    \/ ~extracted.success /\ extracted.json = <<>> /\ Len(extracted.error) = 1

\* C16: whatever the page and the mode, the entry points of the extraction
\* raise nothing to their caller and return either (true, JSON, no error) or
\* (false, no JSON, error); a failure carries no document.
C16_EntryPointsReturnTriples ==
    Extracted => ~fn_extracted.raised /\ WellFormedTriple(fn_extracted)

\* C16 witness: a page whose walk raises was given to extract_html_content,
\* and a failure triple came back.
C16_RaisingPageGivesFailure ==
    /\ fn_pc = "extract_html"
    /\ fn_html.raises # NoException
    /\ ~is_google_doc(fn_html)
    /\ ~fn_extracted.success
    /\ fn_extracted.error # <<>>

\* the first element of the page that the test accepts, 0 without one
FirstWhere(Test(_)) == First(find_where(fn_html.soup, 0, Test))

\* position of an element in the page
PositionOf(id) == CHOOSE k \in 1..Len(fn_html.soup) : fn_html.soup[k].id = id

\* the three elements are there in their order
InOrder(h1, subtitle, lead) ==
    /\ h1 # 0 /\ subtitle # 0 /\ lead # 0
    /\ PositionOf(h1) < PositionOf(subtitle)
    /\ PositionOf(subtitle) < PositionOf(lead)

\* the page has an h1, a sub-title element after it and a lead element after that
H1ThenSubTitleThenLead ==
    InOrder(FirstWhere(LAMBDA node : node.name = "h1"),
            FirstWhere(LAMBDA node : node.class = <<"s","u","b","-","t","i","t","l","e">>),
            FirstWhere(LAMBDA node : node.class = <<"l","e","a","d">>))

TextOfFirst(Test(_)) == clean_text(get_text(fn_html.soup, FirstWhere(Test)))

\* the text is part of a small chunk of a chunk after the first
InLaterChunk(text) ==
    \E k \in 2..Len(Chunks) : \E i \in 1..Len(Chunks[k].small_chunks) :
        Contains(text, Chunks[k].small_chunks[i])

\* surgical extraction of an HTML page has returned a document
SurgicalDone ==
    /\ fn_pc = "extract_html"
    /\ fn_casino
    /\ ~is_google_doc(fn_html)
    /\ fn_extracted.success

\* the three lines are among the items in their order
LinesInOrder(items, a, b, c) ==
    \E i, j, k \in 1..Len(items) :
        /\ i < j /\ j < k
        /\ items[i] = <<"H","1",":"," ">> \o a
        /\ items[j] = <<"S","U","B","T","I","T","L","E",":"," ">> \o b
        /\ items[k] = <<"L","E","A","D",":"," ">> \o c

MetadataInOrder(a, b, c) ==
    /\ LinesInOrder(Chunks[1].small_chunks, a, b, c)
    /\ ~InLaterChunk(a) /\ ~InLaterChunk(b) /\ ~InLaterChunk(c)

\* C17 as claimed: in surgical mode, for a page with an H1 followed by a
\* sub-title element and a lead element, the metadata chunk has the H1,
\* SUBTITLE and LEAD lines in that order, and none of the three texts is in
\* the small_chunks of a later chunk.
C17_MetadataInOrder ==
    (SurgicalDone /\ H1ThenSubTitleThenLead) =>
        MetadataInOrder(TextOfFirst(LAMBDA node : node.name = "h1"),
                        TextOfFirst(LAMBDA node : node.class = <<"s","u","b","-","t","i","t","l","e">>),
                        TextOfFirst(LAMBDA node : node.class = <<"l","e","a","d">>))

\* the pages with the heading 'FAQ', two questions in list items and the two
\* paragraphs of their answers after them: the list first, or each question
\* before its answer
FaqListPages ==
    {PageOf(<<ParagraphBlock, FaqHeaderBlock, QuestionListBlock, AnswerOneBlock, AnswerTwoBlock>>),
     PageOf(<<FaqHeaderBlock, Leaf(1, 0, "li", <<>>, <<>>, <<"Q"," ","o","n","e","?">>), AnswerOneBlock,
              Leaf(1, 0, "li", <<>>, <<>>, <<"Q"," ","t","w","o","?">>), AnswerTwoBlock>>)}

\* the text is part of a small chunk of a chunk that is not the FAQ chunk
InMainContent(text) ==
    \E k \in 1..Len(Chunks) :
        /\ Chunks[k].content_name # <<"F","r","e","q","u","e","n","t","l","y"," ","A","s","k","e","d"," ","Q","u","e","s","t","i","o","n","s">>
        /\ \E i \in 1..Len(Chunks[k].small_chunks) : Contains(text, Chunks[k].small_chunks[i])

\* C18 as claimed: for a heading 'FAQ' followed by k questions in list
\* items and k paragraph answers after them, the FAQ chunk has exactly the k
\* 'FAQ_Q: ... // FAQ_A: ...' lines, paired in order, and no main-content
\* chunk has any of the question or answer text.
C18_FaqPairedInOrder ==
    (SurgicalDone /\ fn_html.soup \in FaqListPages) =>
        /\ \E k \in 1..Len(Chunks) :
              Chunks[k].small_chunks = <<<<"F","A","Q","_","Q",":"," ","Q"," ","o","n","e","?"," ","/","/"," ","F","A","Q","_","A",":"," ","A"," ","o","n","e">>, <<"F","A","Q","_","Q",":"," ","Q"," ","t","w","o","?"," ","/","/"," ","F","A","Q","_","A",":"," ","A"," ","t","w","o">>>>
        /\ \A text \in {<<"Q"," ","o","n","e","?">>, <<"Q"," ","t","w","o","?">>, <<"A"," ","o","n","e">>, <<"A"," ","t","w","o">>} : ~InMainContent(text)

(***************************************************************************)
(* Properties of a batch                                                   *)
(***************************************************************************)
\* the auditor calls of the batch that have started and not returned
BatchInFlight ==
    {fi \in (1..batch_files) \X (1..batch_count) :
        /\ batch_item[fi[1]].pc = "gather"
        /\ batch_item[fi[1]].task[fi[2]] = "calling"}

\* C21 as claimed: in a batch of several files the auditor calls in flight
\* across all files are never more than the cap of 3.
C21_BatchInFlightWithinCap == Cardinality(BatchInFlight) <= MAX_CONCURRENT_AUDITS

\* the line is a small chunk of the first chunk
InFirstChunk(line) ==
    \E i \in 1..Len(Chunks[1].small_chunks) : Chunks[1].small_chunks[i] = line

\* the page has an h1 with text
PageHasH1 ==
    /\ FirstWhere(LAMBDA node : node.name = "h1") # 0
    /\ TextOfFirst(LAMBDA node : node.name = "h1") # <<>>

\* C22 as claimed: the preprocessing removes no element that contains the
\* h1 of the page, so in surgical mode the h1 of a page, inside a header
\* element or not, is found and is the 'H1:' line of the metadata chunk.
C22_H1SurvivesPreprocessing ==
    (SurgicalDone /\ PageHasH1) =>
        InFirstChunk(<<"H","1",":"," ">> \o TextOfFirst(LAMBDA node : node.name = "h1"))

\* the page has no FAQ element that the selectors of lines 176-180 find, so
\* the FAQ is looked for by its heading
NoFaqElement ==
    /\ FirstWhere(LAMBDA node : node.data_qa = <<"t","e","m","p","l","a","t","e","F","A","Q">>) = 0
    /\ FirstWhere(LAMBDA node : node.class = <<"f","a","q","-","s","e","c","t","i","o","n">>) = 0
    /\ FirstWhere(LAMBDA node : Contains(<<"s","c","h","e","m","a",".","o","r","g","/","F","A","Q","P","a","g","e">>, node.itemtype)) = 0

\* the first h2 or h3 of the page with 'faq' in its text, 0 without one
FaqHeading ==
    FirstWhere(LAMBDA node : node.name \in {"h2", "h3"} /\ is_faq_header(get_text(fn_html.soup, node.id)))

\* the elements after the heading that have its parent
SiblingsAfter(heading) ==
    {k \in 1..Len(fn_html.soup) :
        /\ k > PositionOf(heading)
        /\ IsTag(fn_html.soup[k])
        /\ fn_html.soup[k].parent = NodeOf(fn_html.soup, heading).parent}

\* of these, the ones before the next h1 or h2
UpToNextHeading(siblings) ==
    {k \in siblings : \A j \in siblings : fn_html.soup[j].name \in {"h1", "h2"} => k < j}

\* the ids of the sibling elements between the heading and the next
\* top-level heading
FaqRegion == {fn_html.soup[k].id : k \in UpToNextHeading(SiblingsAfter(FaqHeading))}

\* the text is found nowhere in the page but in the element
OnlyTextOf(id, text) ==
    \A k \in 1..Len(fn_html.soup) :
        (~IsTag(fn_html.soup[k]) /\ fn_html.soup[k].id \notin SubtreeIds(fn_html.soup, id))
            => ~Contains(text, clean_text(fn_html.soup[k].text))

\* the line is a label, a colon and the text
IsLineOf(text, line) ==
    /\ Len(line) > Len(text) + 2
    /\ SubSeq(line, Len(line) - Len(text) - 1, Len(line)) = <<":"," ">> \o text

\* the text is the text of a line of a chunk that the main content walk
\* made: not the metadata chunk, not the FAQ chunk
InWalkChunk(text) ==
    \E k \in 1..Len(Chunks) :
        /\ Chunks[k].content_name \notin {<<"F","r","e","q","u","e","n","t","l","y"," ","A","s","k","e","d"," ","Q","u","e","s","t","i","o","n","s">>, <<"P","a","g","e"," ","M","e","t","a","d","a","t","a"," ","&"," ","S","u","m","m","a","r","y">>}
        /\ \E i \in 1..Len(Chunks[k].small_chunks) : IsLineOf(text, Chunks[k].small_chunks[i])

\* the element has text, its own only, and no chunk of the main content
\* walk has it
NotInMainWalk(id, text) == (text # <<>> /\ OnlyTextOf(id, text)) => ~InWalkChunk(text)

\* C23 as claimed: in surgical mode, when the FAQ is found by its heading,
\* every sibling element after the heading and before the next top-level
\* heading is taken into the FAQ region and out of the tree, so the main
\* content walk emits none of them.
C23_FaqRegionLeavesMainWalk ==
    (SurgicalDone /\ NoFaqElement /\ FaqHeading # 0) =>
        \A id \in FaqRegion : NotInMainWalk(id, clean_text(get_text(fn_html.soup, id)))

\* generic extraction of an HTML page has returned a document
GenericDone ==
    /\ fn_pc = "extract_html"
    /\ ~fn_casino
    /\ ~is_google_doc(fn_html)
    /\ fn_extracted.success

\* the page is a row of h2 and p elements, each with text of its own
RowOfSections ==
    /\ fn_html.soup # <<>>
    /\ \A k \in 1..Len(fn_html.soup) :
          IF IsTag(fn_html.soup[k])
          THEN /\ fn_html.soup[k].parent = 0
               /\ fn_html.soup[k].name \in {"h2", "p"}
               /\ clean_text(get_text(fn_html.soup, fn_html.soup[k].id)) # <<>>
          ELSE fn_html.soup[k].parent # 0

\* the section that is open goes to the ones that are done: one that an h2
\* opened always, the one before the first h2 when it has lines
Closed(done, open) ==
    IF open.titled \/ open.lines # <<>>
    THEN Append(done, [content_name |-> open.content_name, lines |-> open.lines])
    ELSE done

RECURSIVE SectionsOf(_, _, _)
\* the sections as the claim has them: an h2 closes the open section and
\* opens one with its text as the name, and every other line goes to the
\* open section
SectionsOf(elements, done, open) ==
    IF elements = <<>> THEN Closed(done, open)
    ELSE IF NodeOf(fn_html.soup, Head(elements)).name = "h2"
    THEN SectionsOf(Tail(elements), Closed(done, open),
                    [content_name |-> clean_text(get_text(fn_html.soup, Head(elements))),
                     lines |-> <<>>, titled |-> TRUE])
    ELSE SectionsOf(Tail(elements), done,
                    [open EXCEPT !.lines = Append(@,
                        formatted_of(fn_html.soup, Head(elements), "p",
                                     clean_text(get_text(fn_html.soup, Head(elements))))[1])])

SectionsAsClaimed ==
    SectionsOf(find_all(fn_html.soup, 0, {"h2", "p"}), <<>>,
               [content_name |-> <<"I","n","t","r","o","d","u","c","t","i","o","n">>, lines |-> <<>>, titled |-> FALSE])

\* the chunks of the output, each with its name and its lines but the
\* 'H2:' line of its heading
SectionsEmitted ==
    [k \in 1..Len(Chunks) |->
        [content_name |-> Chunks[k].content_name,
         lines |-> SelectSeq(Chunks[k].small_chunks, LAMBDA line : ~StartsWith(<<"H","2",":"," ">>, line))]]

\* C24 as claimed: in the main content walk every h2 starts a chunk with
\* its text as the name, the lines between it and the next h2 are in that
\* chunk, the lines before the first h2 are one 'Introduction' chunk, and
\* every line is in exactly one chunk, in document order, whatever the
\* title of the h2.
C24_SectionsFollowH2 ==
    (GenericDone /\ RowOfSections) => SectionsEmitted = SectionsAsClaimed

(***************************************************************************)
(* Properties of the context injection                                     *)
(***************************************************************************)
\* the line is a metadata or warning line
IsContextLine(line) ==
    \/ \E prefix \in {<<"H","1",":">>, <<"L","E","A","D",":">>, <<"S","U","M","M","A","R","Y",":">>, <<"S","U","B","T","I","T","L","E",":">>} : Contains(prefix, line)
    \/ Contains(<<"W","A","R","N","I","N","G">>, line)
    \/ Contains(<<"1","8","+">>, line)

\* the context lines of a chunk
ContextLinesIn(small_chunks) ==
    {small_chunks[i] : i \in {j \in 1..Len(small_chunks) : IsContextLine(small_chunks[j])}}

\* the context lines of the chunks
ContextLinesOf(chunks) == UNION {ContextLinesIn(chunks[k].small_chunks) : k \in 1..Len(chunks)}

\* the text is a JSON document with at least one context line
HasContextLine(text) ==
    text.valid /\ text.data.t = "dict" /\ ContextLinesOf(text.data.big_chunks) # {}

\* the line is a synthetic context marker that carries the context lines
IsMarkerWith(line, context) ==
    /\ StartsWith(<<"*","*","*"," ","G","L","O","B","A","L"," ","P","A","G","E"," ","C","O","N","T","E","X","T"," ","(","A","p","p","l","y"," ","t","o"," ","t","h","i","s"," ","s","e","c","t","i","o","n",")",":"," ">>, line)
    /\ SubSeq(line, Len(line) - 3, Len(line)) = <<" ","*","*","*">>
    /\ \A c \in context : Contains(c, line)

\* the chunk is the original one with one marker line put first
MarkerPutFirst(chunk, original, context) ==
    /\ chunk.big_chunk_index = original.big_chunk_index
    /\ chunk.content_name = original.content_name
    /\ chunk.small_chunks # <<>>
    /\ IsMarkerWith(chunk.small_chunks[1], context)
    /\ Tail(chunk.small_chunks) = original.small_chunks

\* the payload is the document with the marker in every chunk
InjectedInto(enriched, content) ==
    /\ enriched.valid /\ enriched.data.t = "dict"
    /\ Len(enriched.data.big_chunks) = Len(content.data.big_chunks)
    /\ \A k \in 1..Len(content.data.big_chunks) :
          MarkerPutFirst(enriched.data.big_chunks[k], content.data.big_chunks[k],
                         ContextLinesOf(content.data.big_chunks))

\* C25: when the document has a metadata or warning line, the payload has,
\* in every big chunk, one context marker line as the first small chunk and
\* then the lines of the chunk in their order, with the number, the indices
\* and the names of the chunks unchanged; without a context line, or when
\* the input is no valid JSON, the payload is the input unchanged.
C25_ContextInjectedOrUnchanged ==
    fn_pc = "inject1" =>
        IF HasContextLine(fn_content[1])
        THEN InjectedInto(fn_enriched[1], fn_content[1])
        ELSE fn_enriched[1] = fn_content[1]

\* C25 witness: a document of two chunks, one of them with context lines,
\* came back with the marker.
C25_MarkerInBothChunks ==
    /\ fn_pc = "inject1"
    /\ HasContextLine(fn_content[1])
    /\ Len(fn_content[1].data.big_chunks) = 2
    /\ ContextLinesOf(<<fn_content[1].data.big_chunks[2]>>) = {}
    /\ fn_enriched[1] # fn_content[1]

\* what the parser gives for each reply an auditor call may return
ParsedReply == [text \in AuditorReplies |-> parse_to_violations(text).val] @@ <<>>

\* the findings parsed from the response of call i; none when the call
\* failed or its text was empty
ParsedOfCall(i) ==
    IF raw_results[i].success /\ raw_results[i].text # <<>>
    THEN ParsedReply[raw_results[i].text]
    ELSE <<>>

\* the parsed findings of calls 1..n, by call
RECURSIVE ParsedOfCalls(_)
ParsedOfCalls(n) == IF n = 0 THEN <<>> ELSE Append(ParsedOfCalls(n - 1), ParsedOfCall(n))

\* the positions of the pooled list tagged with call i
PooledOfCall(i) ==
    {k \in 1..Len(all_violations) : all_violations[k].source_audit_id = PyInt(i)}

\* finding v is record r of the parser with only its tag set
IsTagged(v, r) == [v EXCEPT !.source_audit_id = PyNone] = r

\* the pooled list against what each call's response parsed to
PooledAsParsed(parsed) ==
    /\ \A k \in 1..Len(all_violations) :
          /\ all_violations[k].source_audit_id.t = "int"
          /\ all_violations[k].source_audit_id.n \in 1..audit_count
          /\ \E j \in 1..Len(parsed[all_violations[k].source_audit_id.n]) :
                IsTagged(all_violations[k], parsed[all_violations[k].source_audit_id.n][j])
    /\ \A i \in 1..audit_count : Cardinality(PooledOfCall(i)) = Len(parsed[i])

\* C26: every finding of the pooled list carries as source_audit_id the
\* 1-based index of the auditor call from whose response it was parsed,
\* in whatever order the calls of the ensemble returned: its tag names a call
\* of the run, the finding is one the parser gives for that call's response,
\* and each call has as many pooled findings as its response parsed to.
C26_TaggedWithCallIndex ==
    all_violations # <<>> => PooledAsParsed(ParsedOfCalls(audit_count))

\* C26 witness: three calls gave different responses, the second none, and
\* the pool holds the findings of the first and the third under their indices.
C26_TwoCallsPooledApart ==
    /\ audit_count >= 3
    /\ pc = "done"
    /\ raw_results[1].success /\ raw_results[3].success
    /\ ~raw_results[2].success
    /\ raw_results[1].text # raw_results[3].text
    /\ PooledOfCall(1) # {} /\ PooledOfCall(3) # {} /\ PooledOfCall(2) = {}
    /\ \E k \in PooledOfCall(1) : \A j \in PooledOfCall(3) :
          ~IsTagged(all_violations[j], [all_violations[k] EXCEPT !.source_audit_id = PyNone])

\* the calls that hold a slot of the semaphore
HoldingSlot == {i \in 1..audit_count : task[i] \in {"staggering", "calling"}}

\* a slot is held only by a call that has not ended, so each is released when
\* its call ends, failed or not
SlotsReleased == semaphore + Cardinality(HoldingSlot) = MAX_CONCURRENT_AUDITS

\* a run that has not ended has a step to take: a queued call has a free slot
\* to acquire or a call holding one is on its way to its end, and the
\* coordinator goes on once every call has ended
CanGoOn ==
    \/ pc = "done"
    \/ pc = "dedup"
    \/ pc = "gather" /\ gathered
    \/ HoldingSlot # {}
    \/ \E i \in 1..audit_count : task[i] = "queued" /\ semaphore > 0

\* at the end of the run every call has had its slot and ended
EveryCallServed ==
    pc = "done" =>
        /\ \A i \in 1..audit_count : task[i] = "done"
        /\ semaphore = MAX_CONCURRENT_AUDITS

\* C27: for any ensemble size, when every remote call comes back (with a
\* reply, an error or a timeout), each of the N queued calls acquires a slot,
\* every slot is released when its call ends, nothing blocks the run before
\* its end, and at its end run_analysis has returned a result.
C27_EveryCallRunsAndRunReturns ==
    /\ SlotsReleased
    /\ CanGoOn
    /\ EveryCallServed
    /\ pc = "done" => result.status = "returned"

\* the requests made by the auditor tasks 1..n
RECURSIVE AuditorRequests(_)
AuditorRequests(n) == IF n = 0 THEN <<>> ELSE AuditorRequests(n - 1) \o requests[n]

\* the remote requests of the run so far
TotalRequests == Len(AuditorRequests(audit_count)) + dedup_calls

\* the requests of a list have the same payload and the same agent
SameRequest(list) ==
    \A k, l \in 1..Len(list) :
        /\ list[k].content = list[l].content
        /\ list[k].assistant_id = list[l].assistant_id

\* C28: in one run each of the N auditor indices makes exactly one remote
\* request, whether it succeeds or fails (none before its call starts, one
\* from then on, one at the end of the run), all these requests carry the
\* same payload and the same auditor agent, the filter agent is called at
\* most once, and the run makes at most N + 1 remote requests.
C28_OneRequestPerIndex ==
    /\ \A i \in 1..audit_count :
          Len(requests[i]) = IF task[i] \in {"calling", "done"} THEN 1 ELSE 0
    /\ pc = "done" => \A i \in 1..audit_count : Len(requests[i]) = 1
    /\ SameRequest(AuditorRequests(audit_count))
    /\ dedup_calls <= 1
    /\ TotalRequests <= audit_count + 1

\* C28 witness: a run of three calls in casino mode on a document with
\* context lines has ended; one call failed, the filter agent was called, and
\* four requests were made, the auditors' with the enriched document.
C28_FourRequestsOneFailed ==
    /\ pc = "done"
    /\ audit_count = 3
    /\ run_casino_mode
    /\ enriched_json # content_json
    /\ ~raw_results[2].success
    /\ raw_results[1].success /\ raw_results[3].success
    /\ dedup_calls = 1
    /\ TotalRequests = 4
    /\ \A i \in 1..3 : requests[i] = <<call_request(i, enriched_json, casino_id)>>

(***************************************************************************)
(* ResponseParser._map_data_to_violations applied to decoded replies       *)
(***************************************************************************)
\* most raw records of the one section of a reply
MaxRecords == 3

\* the keys of a raw violation dict that the mapping reads
RawFields ==
    {"problematic_text", "violation_type", "explanation", "guideline_section",
     "page_number", "severity", "suggested_rewrite", "translation",
     "rewrite_translation", "chunk_language"}

\* a raw dict without one of its keys, and with null for it
WithoutField(d, key) == [k \in DOMAIN d \ {key} |-> d[k]]
WithNull(d, key) == [d EXCEPT ![key] = PyNone]

\* entries of a `violations` list: two complete dicts, one with a null
\* severity, one with few keys, one whose severity is a number, and entries
\* that are no dicts
RawEntries ==
    {JDict(VDict("v1")), JDict(VDict("v6")), JDict(VDict("v4")), JDict(VDict("v5")),
     JDict([VDict("v1") EXCEPT !.severity = PyInt(2)]),
     StrTokenValue, PyNone}

\* a complete dict with one key left out or null
FieldVariants ==
    {JDict(WithoutField(VDict("v6"), key)) : key \in RawFields}
        \cup {JDict(WithNull(VDict("v6"), key)) : key \in RawFields}

RECURSIVE EntryListsUpTo(_, _)
EntryListsUpTo(entries, n) ==
    IF n = 0 THEN {<<>>}
    ELSE EntryListsUpTo(entries, n - 1)
            \cup {Append(list, e) : list \in EntryListsUpTo(entries, n - 1), e \in entries}

\* the decoded reply [{"content_name": ..., "violations": [...]}]
OneSection(raw_violations) ==
    JList(<<JDict([content_name |-> StrTokenValue, violations |-> JList(raw_violations)])>>)

MapInputs ==
    {OneSection(list) : list \in EntryListsUpTo(RawEntries, MaxRecords)}
        \cup {OneSection(<<v>>) : v \in FieldVariants}

MapInit ==
    /\ RunOff
    /\ fn_pc = "map0"
    /\ ParseOff /\ SanitizeOff /\ RestoreOff /\ ExtractOff /\ InjectOff /\ BatchOff
    /\ fn_data \in MapInputs
    /\ fn_mapped = Returned(<<>>)

ApplyMap ==
    /\ fn_pc = "map0"
    /\ fn_mapped' = map_data_to_violations(fn_data)
    /\ fn_pc' = "map1"
    /\ UNCHANGED <<run_vars, parse_vars, sanitize_vars, restore_vars, extract_vars, inject_vars,
                   fn_data, batch_vars>>

SpecMap == MapInit /\ [][ApplyMap]_vars

\* the raw records of the reply given to the mapping
RawList == fn_data.items[1].d.violations.items

\* a raw entry that cannot be mapped: it is no dict, or its severity is
\* there and is no string, which makes Severity.from_string fail
Unmappable(entry) ==
    \/ entry.t # "dict"
    \/ "severity" \in DOMAIN entry.d /\ entry.d.severity.t # "str"

\* the entries of a list that can be mapped, in their order
RECURSIVE MappableEntries(_)
MappableEntries(list) ==
    IF list = <<>> THEN <<>>
    ELSE (IF Unmappable(Head(list)) THEN <<>> ELSE <<Head(list)>>) \o MappableEntries(Tail(list))

\* what the mapping gives for each entry of a list when it is alone in a reply
RECURSIVE EachAlone(_)
EachAlone(list) ==
    IF list = <<>> THEN <<>>
    ELSE map_data_to_violations(OneSection(<<Head(list)>>)).val \o EachAlone(Tail(list))

\* C29: a raw record that cannot be mapped (an entry that is no dict, or a
\* field value that makes the construction fail) is skipped on its own: the
\* mapping raises nothing and returns, in order, one record for every other
\* entry of the reply, before and after it, the same as that entry gives
\* alone.
C29_BadRecordSkippedAlone ==
    fn_pc = "map1" =>
        /\ fn_mapped.exc = ""
        /\ Len(fn_mapped.val) = Len(MappableEntries(RawList))
        /\ fn_mapped.val = EachAlone(MappableEntries(RawList))

\* C29 witness: a dict with a null severity stands between two good records,
\* and the two were returned.
C29_GoodBadGood ==
    /\ fn_pc = "map1"
    /\ Len(RawList) = 3
    /\ ~Unmappable(RawList[1]) /\ ~Unmappable(RawList[3])
    /\ RawList[2].t = "dict" /\ Unmappable(RawList[2])
    /\ RawList[1] # RawList[3]
    /\ Len(fn_mapped.val) = 2
    /\ fn_mapped.val[1].problematic_text = RawList[1].d.problematic_text
    /\ fn_mapped.val[2].problematic_text = RawList[3].d.problematic_text

\* the default the mapping is to put for a field that is missing or null
DefaultOf(key) ==
    CASE key \in {"problematic_text", "guideline_section", "suggested_rewrite"} -> PyStr(<<"N","/","A">>)
      [] key = "violation_type" -> PyStr(<<"U","n","k","n","o","w","n">>)
      [] key = "explanation" -> PyStr(<<"N","o"," ","e","x","p","l","a","n","a","t","i","o","n">>)
      [] key = "page_number" -> PyInt(0)
      [] key = "severity" -> PyStr(<<"m","e","d","i","u","m">>)
      [] key = "chunk_language" -> PyStr(<<"E","n","g","l","i","s","h">>)
      [] OTHER -> PyNone

\* the fields of a Violation that have no None default
RequiredFields ==
    {"problematic_text", "violation_type", "explanation", "guideline_section",
     "page_number", "severity", "suggested_rewrite"}

\* the fields for which a default other than None is named
DefaultedFields == RequiredFields \cup {"chunk_language"}

\* the keys of a raw dict that are missing or null
MissingOrNull(d) == {key \in RawFields : key \notin DOMAIN d \/ d[key] = PyNone}

\* C30 as claimed: a raw violation dict in which a field is missing or null
\* is still mapped to a Violation, with the default in that field ("N/A",
\* "Unknown", 0, medium severity, "English"): nothing is raised, the record
\* is not dropped, and no required field is left null.
C30_DefaultsForMissingOrNull ==
    (/\ fn_pc = "map1"
     /\ Len(RawList) = 1
     /\ RawList[1].t = "dict"
     /\ MissingOrNull(RawList[1].d) # {})
    => /\ fn_mapped.exc = ""
       /\ Len(fn_mapped.val) = 1
       /\ \A key \in MissingOrNull(RawList[1].d) \cap DefaultedFields :
             fn_mapped.val[1][key] = DefaultOf(key)
       /\ \A key \in RequiredFields : fn_mapped.val[1][key] # PyNone

====
